---- MODULE Spec2Model ----
(***************************************************************************)
(* Model of the deployment scripts of the portfolio repository.            *)
(*                                                                         *)
(* Two copies of the deploy script exist: scripts/deploy.sh ("basic") and  *)
(* the copy with run_deployment_step / handle_deployment_error             *)
(* ("enhanced").  Both start with `set -euo pipefail`.  The facts of bash  *)
(* the model rests on:                                                     *)
(*   - error() logs and runs `exit 1`: the shell ends there, and `exit`    *)
(*     does not fire the ERR trap;                                         *)
(*   - without `set -E` the ERR trap is not inherited by shell functions:  *)
(*     a command that fails inside a function under errexit ends the shell *)
(*     inside the function, the trap is not run;                           *)
(*   - a function called in the condition of `if` (run_deployment_step:    *)
(*     `if ! $step_function`) runs with errexit ignored for its whole      *)
(*     body: a failing command is followed by the next command, and the    *)
(*     function returns the status of its last command;                    *)
(*   - the ERR trap fires only for a failing command of main itself.       *)
(*                                                                         *)
(* The file system is abstracted to: the content of dist (a release        *)
(* number), the backup directory (name -> content, modification time),     *)
(* the pointer file /tmp/portfolio_last_backup and the log directory.      *)
(* Backup names are timestamps; the clock is taken to advance between two  *)
(* create_backup calls, so names are distinct.                             *)
(***************************************************************************)
EXTENDS Integers, Sequences, FiniteSets, TLC

\* ---------------------------------------------------------------- bounds
MaxInvocations == 2
MaxInitBackups == 6
MaxRollbackCalls == 2
MaxUpFrom == 11
Workers == 2            \* workers of the main service (instances: 'max')
MaxAttempts == 10       \* largest max_attempts given to health_check
MaxArgs == 3            \* longest argument list given to a script
MaxRuns == 2            \* runHealthChecks calls followed
MaxLabels == 3          \* most labels of a domain given to install.sh
MaxWords == 4           \* longest list of flags and words given to it
MaxTextLen == 3         \* longest text given to a TypingEffect
MaxTimers == 3          \* most type() timers followed at once
MaxChecks == 2          \* most results followed in one of the later groups

\* ------------------------------------------------------ program constants
KEEP == 5
PostDeployAttempts == 10
RollbackAttempts == 5
FinalAttempts == 3
OptionAttempts == 5
ROLLBACK_ENABLED == TRUE
SleepSeconds == 2

\* CONFIG.criticalThresholds of the health service, in percent
memoryUsage == 90
cpuUsage == 90
diskUsage == 95

Basic == "scripts/deploy.sh"
Enhanced == "deploy.sh (enhanced)"
Scripts == {Basic, Enhanced}

\* content of a dist directory: NoDist = the directory does not exist,
\* Broken = the directory exists without index.html, n > 0 = release n
NoDist == 0
Broken == -1
is_dir(d) == d # NoDist
has_index(d) == d > 0

VARIABLES
  script,       \* which copy of the script is installed
  dist,         \* $DEPLOY_PATH/dist
  backups,      \* $BACKUP_PATH: name -> [dist, mtime]
  lastBackup,   \* /tmp/portfolio_last_backup: 0 = no file, else a name
  pm2,          \* PM2 entry of $APP_NAME: "absent", "online", "stopped"
  logDir,       \* dirname $LOG_FILE exists
  clock,        \* the last timestamp used as a backup name
  arg,          \* ${1:-} of the running invocation
  pc,           \* position of the running invocation
  exitCode,     \* exit status once pc = "exited", -1 before
  trapSet,      \* an ERR trap is installed
  BACKUP_DIR,   \* shell variable BACKUP_DIR, 0 = unset
  invocations,  \* invocations started so far
  obs,          \* what the running invocation has done (observation only)
  run,          \* what the invocations so far have been (observation only)
  probe,        \* one call of health_check, statement by statement
  healthStatus, \* health service: the module-level `let healthStatus`
  inflight,     \* health service: the pending async calls, by origin
  runsStarted,  \* health service: runHealthChecks calls so far
  everCompleted,\* health service: a runHealthChecks call has completed
  response,     \* health service: what the last step wrote to `res`
  inst,         \* install.sh: its shell variables, position and effects
  setup,        \* setup-service.sh: its shell variables and position
  inp,          \* install.sh: its arguments, DOMAIN, EMAIL and what it
                \* writes from them
  verify,       \* the deployment verification script: counters, position
  effect        \* typing.js: one TypingEffect, its timers and the page

sys == <<dist, backups, lastBackup, pm2, logDir, clock>>
deployVars == <<script, dist, backups, lastBackup, pm2, logDir, clock, arg,
                pc, exitCode, trapSet, BACKUP_DIR, invocations, obs, run>>
probeVars == <<probe>>
healthVars == <<healthStatus, inflight, runsStarted, everCompleted, response>>
\* the state of the programs other than the deploy script
installVars == <<inst>>
setupVars == <<setup>>
inputVars == <<inp>>
verifyVars == <<verify>>
effectVars == <<effect>>
moreVars == <<inputVars, verifyVars, effectVars>>
aside == <<probeVars, healthVars, installVars, setupVars, moreVars>>
besideProbe == <<deployVars, healthVars, installVars, setupVars, moreVars>>
besideHealth == <<deployVars, probeVars, installVars, setupVars, moreVars>>
besideInstall == <<deployVars, probeVars, healthVars, setupVars, moreVars>>
besideSetup == <<deployVars, probeVars, healthVars, installVars, moreVars>>
besideInput == <<deployVars, probeVars, healthVars, installVars, setupVars,
                 verifyVars, effectVars>>
besideVerify == <<deployVars, probeVars, healthVars, installVars, setupVars,
                  inputVars, effectVars>>
besideEffect == <<deployVars, probeVars, healthVars, installVars, setupVars,
                  inputVars, verifyVars>>
vars == <<deployVars, aside>>

Range(s) == {s[i] : i \in DOMAIN s}

\* ------------------------------------------------------------ health_check
\* The service answers probe i iff it is up by then (upFrom = 0: never).
curl_ok(attempt, upFrom) == upFrom # 0 /\ attempt >= upFrom

RECURSIVE health_loop(_, _, _)
health_loop(attempt, max_attempts, upFrom) ==
  IF attempt <= max_attempts
  THEN IF curl_ok(attempt, upFrom)
       THEN [healthy |-> TRUE, probes |-> attempt]
       ELSE health_loop(attempt + 1, max_attempts, upFrom)
  ELSE [healthy |-> FALSE, probes |-> attempt - 1]

health_check(max_attempts, upFrom) == health_loop(1, max_attempts, upFrom)

\* --------------------------------------------------------- cleanup_backups
\* ls -tr: oldest modification time first
ls_tr_before(bks, a, b) ==
  \/ bks[a].mtime < bks[b].mtime
  \/ bks[a].mtime = bks[b].mtime /\ a >= b

\* ls -t: newest modification time first, ties in name order
ls_before(bks, a, b) ==
  \/ bks[a].mtime > bks[b].mtime
  \/ bks[a].mtime = bks[b].mtime /\ a <= b

RECURSIVE ls_t(_)
ls_t(bks) ==
  IF DOMAIN bks = {} THEN << >>
  ELSE LET first == CHOOSE a \in DOMAIN bks :
                       \A b \in DOMAIN bks : ls_before(bks, a, b)
       IN  <<first>> \o ls_t([k \in DOMAIN bks \ {first} |-> bks[k]])

\* tail -n N: the last N lines
tail_last(lines, n) ==
  IF n >= Len(lines) THEN lines
  ELSE SubSeq(lines, Len(lines) - n + 1, Len(lines))

\* tail -n +N: from line N on
tail_from(lines, n) ==
  IF n > Len(lines) THEN << >> ELSE SubSeq(lines, n, Len(lines))

cleanup_victims(bks) == Range(tail_from(ls_t(bks), KEEP + 1))

rm_rf(bks, names) == [k \in DOMAIN bks \ names |-> bks[k]]

\* ------------------------------------------------------------------- main
\* build_application called before create_backup
main_steps_reordered ==
  << "check_user", "check_prerequisites", "pre_deploy_hook",
     "install_dependencies", "build_application", "create_backup",
     "deploy_with_pm2", "reload_nginx", "post_deployment_checks",
     "post_deploy_hook", "cleanup_backups" >>

main_steps ==
  << "check_user", "check_prerequisites", "pre_deploy_hook", "create_backup",
     "install_dependencies", "build_application", "deploy_with_pm2",
     "reload_nginx", "post_deployment_checks", "post_deploy_hook",
     "cleanup_backups" >>

index_of(step) == CHOOSE i \in DOMAIN main_steps : main_steps[i] = step

\* the position main reaches when `step` has returned
after(step) ==
  IF index_of(step) < Len(main_steps) THEN main_steps[index_of(step) + 1]
  ELSE "main_end"

\* set -e is in force inside a step: in the basic script steps are plain
\* commands of main, in the enhanced one they run under `if ! $step_function`
errexit(s) == s = Basic

\* error() returning to its caller's ERR handling instead of ending the shell
error_returns == [pc |-> "rollback", exitCode |-> -1]

\* error(): log, then exit 1
error == [pc |-> "exited", exitCode |-> 1]

\* a command failing under errexit ends the shell with its status
errexit_exit == [pc |-> "exited", exitCode |-> 1]

\* the handler installed by `trap ... ERR`
err_trap(s) == IF s = Basic THEN "rollback" ELSE "handle_deployment_error"

\* ------------------------------------------------------------------ nginx
\* the reload issued whatever nginx -t answered
nginx_reload_untested(testOk) ==
  IF testOk THEN <<"test_ok", "reload">> ELSE <<"test_failed", "reload">>

\* if sudo nginx -t; then sudo systemctl reload nginx; else ...; fi
nginx_t_then_reload(testOk) ==
  IF testOk THEN <<"test_ok", "reload">> ELSE <<"test_failed">>

\* -------------------------------------------------------------------- pm2
\* Workers a pm2 command takes out of service at the same time, the service
\* being in `state`: reload replaces the workers of a cluster one by one,
\* stop and delete end all of them, start ends none.
pm2_absent(cmd, state) ==
  IF state # "online" THEN 0
  ELSE IF cmd = "reload" THEN 1
  ELSE IF cmd \in {"stop", "delete"} THEN Workers
  ELSE 0

Max(a, b) == IF a >= b THEN a ELSE b

\* no health_check call is being followed
NoProbe == [pc |-> "idle"]
ProbeIdle == probe = NoProbe

\* install.sh is not running
InstallIdle == inst = [pc |-> "idle"]

\* setup-service.sh is not running
SetupIdle == setup = [pc |-> "idle"]

\* install.sh has been given no arguments, the verification script is not
\* running, no TypingEffect has been constructed
InputIdle == inp = [pc |-> "idle"]
VerifyIdle == verify = [pc |-> "idle"]
EffectIdle == effect = [pc |-> "idle"]
MoreIdle == InputIdle /\ VerifyIdle /\ EffectIdle

\* `res` untouched, no report returned yet
NoResponse == [path |-> "none"]
NoReturn == [status |-> "none"]

\* let healthStatus = { status: 'unknown', ..., checks: {} }.  The field
\* `by` is not in the program: it records which runHealthChecks call
\* produced each entry of checks.
InitialHealthStatus == [status |-> "unknown", checks |-> << >>, by |-> << >>]

\* the health service is not running
HealthIdle ==
  /\ healthStatus = InitialHealthStatus
  /\ inflight = << >>
  /\ runsStarted = 0
  /\ everCompleted = FALSE
  /\ response = NoResponse

FreshObs(d, bks) ==
  [ steps |-> << >>,          \* step functions entered, in order
    failed |-> {},            \* steps in which a command failed or error ran
    preDist |-> d,            \* dist when the invocation started
    preBackups |-> DOMAIN bks,
    backupFailed |-> FALSE,   \* the copy of create_backup failed
    noIndex |-> FALSE,        \* no dist/index.html after the build command
    postHealth |-> "none",    \* result of health_check in post_deployment_checks
    deleted |-> << >>,        \* entries removed by cleanup_backups
    rollbackCalls |-> 0,
    restoredFrom |-> 0,       \* backup whose dist rollback copied back
    rbHealthRuns |-> 0,       \* health_check runs after the restore
    rbFailed |-> FALSE,       \* an action inside rollback failed
    nginx |-> << >>,          \* nginx -t results and reloads issued, in order
    maxAbsent |-> 0,          \* most workers taken out of service at once
    logFailed |-> FALSE ]     \* a log line could not be appended

Init ==
  /\ MoreIdle
  /\ script \in Scripts
  /\ dist \in {NoDist, 1}
  /\ \E k \in 0..MaxInitBackups :
       /\ backups = [n \in 1..k |-> [dist |-> 1, mtime |-> n]]
       /\ lastBackup \in {0, k}
       /\ clock = k
  /\ pm2 \in {"absent", "online"}
  /\ logDir \in BOOLEAN
  /\ arg = ""
  /\ pc = "idle"
  /\ exitCode = -1
  /\ trapSet = FALSE
  /\ BACKUP_DIR = 0
  /\ invocations = 0
  /\ obs = FreshObs(dist, backups)
  /\ run = [ emptyStart |-> backups = << >>,  \* no backup at the start
             firstDist |-> dist,              \* dist at the start
             allDeployed |-> TRUE ]           \* every invocation so far was
                                              \* a deploy that exited with 0
  /\ ProbeIdle
  /\ HealthIdle
  /\ InstallIdle
  /\ SetupIdle

\* ---------------------------------------------------------- small helpers
Goto(p, c, o) == pc' = p /\ exitCode' = c /\ obs' = o

\* the step returned 0 and main goes on
Returns(step, hasFailed, o) ==
  Goto(after(step), exitCode, [o EXCEPT !.steps = Append(@, step),
         !.failed = IF hasFailed THEN @ \cup {step} ELSE @])

\* the shell ended inside the step
Ends(step, how, o) ==
  Goto(how.pc, how.exitCode, [o EXCEPT !.steps = Append(@, step),
         !.failed = @ \cup {step}])

\* a command of the step returned non-zero
CommandFailed(step, o) ==
  IF errexit(script) THEN Ends(step, errexit_exit, o)
  ELSE Returns(step, TRUE, o)

\* ------------------------------------------------- the case "${1:-}" in
Invoke ==
  /\ pc \in {"idle", "exited"}
  /\ invocations < MaxInvocations
  /\ invocations' = invocations + 1
  /\ \E a \in {"", "--rollback"} :
       /\ arg' = a
       /\ pc' = IF a = "--rollback" THEN "rollback" ELSE "main"
  /\ exitCode' = -1
  /\ trapSet' = FALSE
  /\ BACKUP_DIR' = 0
  /\ obs' = FreshObs(dist, backups)
  /\ run' = [run EXCEPT !.allDeployed =
                @ /\ (pc = "idle" \/ (arg = "" /\ exitCode = 0))]
  /\ UNCHANGED aside
  /\ UNCHANGED <<script, sys>>

\* main up to the first step: info (a log line), mkdir -p of the log
\* directory, trap ... ERR, and in the enhanced script DEPLOY_START_TIME
main ==
  /\ pc = "main"
  /\ IF ~logDir
     THEN \* tee -a fails, the pipeline of log() fails under pipefail/errexit
          /\ Goto(errexit_exit.pc, errexit_exit.exitCode,
                  [obs EXCEPT !.logFailed = TRUE])
          /\ UNCHANGED <<logDir, trapSet>>
     ELSE /\ logDir' = TRUE
          /\ trapSet' = TRUE
          /\ \E dateOk \in BOOLEAN :
               IF script = Enhanced /\ ~dateOk
               THEN Goto(err_trap(script), exitCode, obs)
               ELSE Goto(main_steps[1], exitCode, obs)
  /\ UNCHANGED aside
  /\ UNCHANGED <<script, dist, backups, lastBackup, pm2, clock, arg,
                 BACKUP_DIR, invocations, run>>

check_user ==
  /\ pc = "check_user"
  /\ \E asDeployUser \in BOOLEAN :
       IF asDeployUser THEN Returns("check_user", FALSE, obs)
       ELSE Ends("check_user", error, obs)
  /\ UNCHANGED aside
  /\ UNCHANGED <<script, sys, arg, trapSet, BACKUP_DIR, invocations, run>>

check_prerequisites ==
  /\ pc = "check_prerequisites"
  /\ \E missing \in {"none", "pm2", "nginx", "node", "node>=20"} :
       IF missing = "none" THEN Returns("check_prerequisites", FALSE, obs)
       ELSE Ends("check_prerequisites", error, obs)
  /\ UNCHANGED aside
  /\ UNCHANGED <<script, sys, arg, trapSet, BACKUP_DIR, invocations, run>>

\* slack-notify runs only when it is installed
pre_deploy_hook ==
  /\ pc = "pre_deploy_hook"
  /\ \E slack \in {"absent", "ok", "fails"} :
       IF slack = "fails" THEN CommandFailed("pre_deploy_hook", obs)
       ELSE Returns("pre_deploy_hook", FALSE, obs)
  /\ UNCHANGED aside
  /\ UNCHANGED <<script, sys, arg, trapSet, BACKUP_DIR, invocations, run>>

\* mkdir -p of a new timestamp directory, then the copies when dist exists
create_backup ==
  /\ pc = "create_backup"
  /\ clock' = clock + 1
  /\ BACKUP_DIR' = clock + 1
  /\ LET name == clock + 1
         made(c) == [k \in DOMAIN backups \cup {name} |->
                       IF k = name THEN [dist |-> c, mtime |-> name]
                       ELSE backups[k]]
     IN  IF is_dir(dist)
         THEN \E cpOk \in BOOLEAN, left \in {NoDist, Broken} :
                IF cpOk
                THEN /\ backups' = made(dist)
                     /\ lastBackup' = name
                     /\ Returns("create_backup", FALSE, obs)
                ELSE /\ backups' = made(left)
                     /\ lastBackup' = IF errexit(script) THEN lastBackup
                                      ELSE name
                     /\ CommandFailed("create_backup",
                                      [obs EXCEPT !.backupFailed = TRUE])
         ELSE /\ backups' = made(NoDist)
              /\ lastBackup' = lastBackup
              /\ Returns("create_backup", FALSE, obs)
  /\ UNCHANGED aside
  /\ UNCHANGED <<script, dist, pm2, logDir, arg, trapSet, invocations, run>>

install_dependencies ==
  /\ pc = "install_dependencies"
  /\ \E npmOk \in BOOLEAN :
       IF npmOk THEN Returns("install_dependencies", FALSE, obs)
       ELSE CommandFailed("install_dependencies", obs)
  /\ UNCHANGED aside
  /\ UNCHANGED <<script, sys, arg, trapSet, BACKUP_DIR, invocations, run>>

\* the build is taken to have succeeded whatever it wrote
build_unverified(d) == TRUE

\* [[ -f dist/index.html ]]
build_verified(d) == has_index(d)

\* npm run build, then the check of dist/index.html
build_application ==
  /\ pc = "build_application"
  /\ \E npmOk \in BOOLEAN, wrote \in BOOLEAN :
       LET d == IF npmOk THEN (IF wrote THEN invocations + 1 ELSE Broken)
                ELSE (IF wrote THEN Broken ELSE dist)
           o == [obs EXCEPT !.noIndex = ~has_index(d)]
       IN  /\ dist' = d
           /\ IF ~npmOk /\ errexit(script)
              THEN Ends("build_application", errexit_exit, o)
              ELSE IF build_verified(d)
                   THEN Returns("build_application", ~npmOk, o)
                   ELSE Ends("build_application", error, o)
  /\ UNCHANGED aside
  /\ UNCHANGED <<script, backups, lastBackup, pm2, logDir, clock, arg,
                 trapSet, BACKUP_DIR, invocations, run>>

\* pm2 describe decides between reload and start; pm2 save follows
deploy_with_pm2 ==
  /\ pc = "deploy_with_pm2"
  /\ \E ok \in BOOLEAN, state \in {pm2, "stopped"} :
       LET cmd == IF pm2 = "absent" THEN "start" ELSE "reload"
           o == [obs EXCEPT !.maxAbsent = Max(@, pm2_absent(cmd, pm2))]
       IN  IF ok
           THEN /\ pm2' = "online"
                /\ Returns("deploy_with_pm2", FALSE, o)
           ELSE /\ pm2' = state
                /\ CommandFailed("deploy_with_pm2", o)
  /\ UNCHANGED aside
  /\ UNCHANGED <<script, dist, backups, lastBackup, logDir, clock, arg,
                 trapSet, BACKUP_DIR, invocations, run>>

reload_nginx ==
  /\ pc = "reload_nginx"
  /\ \E testOk \in BOOLEAN, reloadOk \in BOOLEAN :
       LET o == [obs EXCEPT !.nginx = @ \o nginx_t_then_reload(testOk)]
       IN  IF testOk
           THEN IF reloadOk THEN Returns("reload_nginx", FALSE, o)
                ELSE CommandFailed("reload_nginx", o)
           ELSE Ends("reload_nginx", error, o)
  /\ UNCHANGED aside
  /\ UNCHANGED <<script, sys, arg, trapSet, BACKUP_DIR, invocations, run>>

post_deployment_checks ==
  /\ pc = "post_deployment_checks"
  /\ IF pm2 # "online"
     THEN Ends("post_deployment_checks", error, obs)
     ELSE \E upFrom \in 0..MaxUpFrom, mainOk \in BOOLEAN :
            LET hc == health_check(PostDeployAttempts, upFrom)
            IN  IF ~hc.healthy
                THEN Ends("post_deployment_checks", error,
                          [obs EXCEPT !.postHealth = "unhealthy"])
                ELSE IF mainOk
                     THEN Returns("post_deployment_checks", FALSE,
                                  [obs EXCEPT !.postHealth = "healthy"])
                     ELSE Ends("post_deployment_checks", error,
                               [obs EXCEPT !.postHealth = "healthy"])
  /\ UNCHANGED aside
  /\ UNCHANGED <<script, sys, arg, trapSet, BACKUP_DIR, invocations, run>>

\* curl ... || true, then slack-notify when it is installed
post_deploy_hook ==
  /\ pc = "post_deploy_hook"
  /\ \E slack \in {"absent", "ok", "fails"} :
       IF slack = "fails" THEN CommandFailed("post_deploy_hook", obs)
       ELSE Returns("post_deploy_hook", FALSE, obs)
  /\ UNCHANGED aside
  /\ UNCHANGED <<script, sys, arg, trapSet, BACKUP_DIR, invocations, run>>

\* cd "$BACKUP_PATH"; ls -t | tail -n +6 | xargs -r rm -rf
cleanup_backups ==
  /\ pc = "cleanup_backups"
  /\ backups' = rm_rf(backups, cleanup_victims(backups))
  /\ Returns("cleanup_backups", FALSE,
             [obs EXCEPT !.deleted =
                [k \in cleanup_victims(backups) |-> backups[k]]])
  /\ UNCHANGED aside
  /\ UNCHANGED <<script, dist, lastBackup, pm2, logDir, clock, arg, trapSet,
                 BACKUP_DIR, invocations, run>>

\* main after the last step.  Basic: pm2 status is a command of main, its
\* failure fires the ERR trap.  Enhanced: DEPLOY_END_TIME=$(date +%s),
\* pm2 status || warning, then `if health_check ... 3`.
main_end ==
  /\ pc = "main_end"
  /\ IF script = Basic
     THEN \E statusOk \in BOOLEAN :
            IF statusOk THEN Goto("exited", 0, obs)
            ELSE Goto(err_trap(script), exitCode, obs)
     ELSE \E dateOk \in BOOLEAN, upFrom \in 0..MaxUpFrom :
            IF ~dateOk THEN Goto(err_trap(script), exitCode, obs)
            ELSE IF health_check(FinalAttempts, upFrom).healthy
                 THEN Goto("exited", 0, obs)
                 ELSE Goto(error.pc, error.exitCode, obs)
  /\ UNCHANGED aside
  /\ UNCHANGED <<script, sys, arg, trapSet, BACKUP_DIR, invocations, run>>

\* handle_deployment_error: its first command is error, which exits; the
\* log lines, the call of rollback and `exit $exit_code` are never reached
handle_deployment_error ==
  /\ pc = "handle_deployment_error"
  /\ Goto(error.pc, error.exitCode, obs)
  /\ UNCHANGED aside
  /\ UNCHANGED <<script, sys, arg, trapSet, BACKUP_DIR, invocations, run>>

\* rollback, called by `--rollback` or by the ERR trap of the basic script
rollback ==
  /\ pc = "rollback"
  /\ obs.rollbackCalls < MaxRollbackCalls
  /\ LET o == [obs EXCEPT !.rollbackCalls = @ + 1]
     IN
     IF ~logDir
     THEN \* the first log line fails
          /\ Goto(errexit_exit.pc, errexit_exit.exitCode,
                  [o EXCEPT !.logFailed = TRUE])
          /\ UNCHANGED <<dist, pm2, BACKUP_DIR>>
     ELSE IF ~ROLLBACK_ENABLED \/ script = Basic
     THEN \* error "Rollback is disabled" /
          \* basic: error "Deployment failed, initiating rollback..."
          /\ Goto(error.pc, error.exitCode, o)
          /\ UNCHANGED <<dist, pm2, BACKUP_DIR>>
     ELSE IF lastBackup = 0 \/ lastBackup \notin DOMAIN backups
     THEN \* error "No backup found" / "Backup directory not found"
          /\ Goto(error.pc, error.exitCode, o)
          /\ BACKUP_DIR' = IF lastBackup = 0 THEN BACKUP_DIR ELSE lastBackup
          /\ UNCHANGED <<dist, pm2>>
     ELSE /\ BACKUP_DIR' = lastBackup
          /\ \E cpOk \in BOOLEAN, startOk \in BOOLEAN, testOk \in BOOLEAN,
                reloadOk \in BOOLEAN, upFrom \in 0..MaxUpFrom :
               LET saved == backups[lastBackup].dist
                   \* pm2 stop, pm2 delete
                   stopped == [o EXCEPT !.maxAbsent =
                                 Max(@, pm2_absent("stop", pm2))]
                   done == [stopped EXCEPT !.restoredFrom = lastBackup]
                   tested == [done EXCEPT !.nginx =
                                @ \o nginx_t_then_reload(testOk)]
                   hc == health_check(RollbackAttempts, upFrom)
               IN
               \* rm -rf dist, cp -r $BACKUP_DIR/dist
               IF ~(cpOk /\ is_dir(saved))
               THEN /\ dist' = NoDist
                    /\ pm2' = "absent"
                    /\ Goto(error.pc, error.exitCode,
                            [stopped EXCEPT !.rbFailed = TRUE])
               ELSE /\ dist' = saved
                    /\ IF ~startOk
                       THEN /\ pm2' = "absent"
                            /\ Goto(error.pc, error.exitCode,
                                    [done EXCEPT !.rbFailed = TRUE])
                       ELSE /\ pm2' = "online"
                            /\ IF testOk /\ ~reloadOk
                               THEN Goto(errexit_exit.pc, errexit_exit.exitCode,
                                         [tested EXCEPT !.rbFailed = TRUE])
                               ELSE IF hc.healthy
                               THEN Goto("exited", 0,
                                         [tested EXCEPT !.rbHealthRuns = @ + 1])
                               ELSE Goto(error.pc, error.exitCode,
                                         [tested EXCEPT !.rbHealthRuns = @ + 1,
                                                        !.rbFailed = TRUE])
  /\ UNCHANGED aside
  /\ UNCHANGED <<script, backups, lastBackup, logDir, clock, arg, trapSet,
                 invocations, run>>

Next ==
  \/ Invoke \/ main \/ check_user \/ check_prerequisites \/ pre_deploy_hook
  \/ create_backup \/ install_dependencies \/ build_application
  \/ deploy_with_pm2 \/ reload_nginx \/ post_deployment_checks
  \/ post_deploy_hook \/ cleanup_backups \/ main_end
  \/ handle_deployment_error \/ rollback

Spec == Init /\ [][Next]_vars

\* ------------------------------------- one invocation with another option
\* case "${1:-}" in ... esac with a first argument other than --rollback:
\* --health-check, --status and --logs have a branch, anything else, the
\* documented --backup included, falls to `*) main "$@"`
InvokeOption ==
  /\ pc = "idle"
  /\ invocations' = invocations + 1
  /\ \E a \in {"--backup", "--health-check", "--status", "--logs"} :
       /\ arg' = a
       /\ pc' = IF a = "--health-check" THEN "health_check_option"
                ELSE IF a \in {"--status", "--logs"} THEN "pm2_option"
                ELSE "main"
  /\ exitCode' = -1
  /\ trapSet' = FALSE
  /\ BACKUP_DIR' = 0
  /\ obs' = FreshObs(dist, backups)
  /\ run' = [run EXCEPT !.allDeployed = FALSE]
  /\ UNCHANGED aside
  /\ UNCHANGED <<script, sys>>

\* health_check "$HEALTH_CHECK_URL" 5: its first statement is a log line
health_check_option ==
  /\ pc = "health_check_option"
  /\ IF ~logDir
     THEN Goto(errexit_exit.pc, errexit_exit.exitCode,
               [obs EXCEPT !.logFailed = TRUE])
     ELSE \E upFrom \in 0..MaxUpFrom :
            IF health_check(OptionAttempts, upFrom).healthy
            THEN Goto("exited", 0, obs)
            ELSE Goto(error.pc, error.exitCode, obs)
  /\ UNCHANGED aside
  /\ UNCHANGED <<script, sys, arg, trapSet, BACKUP_DIR, invocations, run>>

\* pm2 status "$APP_NAME" / pm2 logs "$APP_NAME": no log line is written
pm2_option ==
  /\ pc = "pm2_option"
  /\ \E ok \in BOOLEAN :
       IF ok THEN Goto("exited", 0, obs)
       ELSE Goto(errexit_exit.pc, errexit_exit.exitCode, obs)
  /\ UNCHANGED aside
  /\ UNCHANGED <<script, sys, arg, trapSet, BACKUP_DIR, invocations, run>>

OptionNext ==
  \/ InvokeOption \/ health_check_option \/ pm2_option
  \/ main \/ check_user \/ check_prerequisites \/ pre_deploy_hook
  \/ create_backup \/ install_dependencies \/ build_application
  \/ deploy_with_pm2 \/ reload_nginx \/ post_deployment_checks
  \/ post_deploy_hook \/ cleanup_backups \/ main_end
  \/ handle_deployment_error \/ rollback

OptionSpec == Init /\ [][OptionNext]_vars

\* ------------------------------------------- invocations after a history
\* The backup directory after earlier invocations: the k - e oldest entries
\* hold a dist, the e newest are the empty directories create_backup makes
\* (mkdir -p) when dist is missing, and the pointer file names the newest
\* entry that holds a dist: the last one create_backup wrote it for.
HistoryInit ==
  /\ MoreIdle
  /\ script \in Scripts
  /\ dist \in {NoDist, 1}
  /\ \E k \in 0..MaxInitBackups : \E e \in 0..k :
       /\ backups = [n \in 1..k |->
                       [dist |-> IF n <= k - e THEN 1 ELSE NoDist,
                        mtime |-> n]]
       /\ lastBackup = k - e
       /\ clock = k
  /\ pm2 = "online"
  /\ logDir = TRUE
  /\ arg = ""
  /\ pc = "idle"
  /\ exitCode = -1
  /\ trapSet = FALSE
  /\ BACKUP_DIR = 0
  /\ invocations = 0
  /\ obs = FreshObs(dist, backups)
  /\ run = [ emptyStart |-> backups = << >>, firstDist |-> dist,
             allDeployed |-> TRUE ]
  /\ ProbeIdle
  /\ HealthIdle
  /\ InstallIdle
  /\ SetupIdle

HistorySpec == HistoryInit /\ [][Next]_vars

TypeOK ==
  /\ script \in Scripts
  /\ dist \in Int
  /\ pm2 \in {"absent", "online", "stopped"}
  /\ pc \in Range(main_steps) \cup {"idle", "main", "main_end", "rollback",
                                   "handle_deployment_error", "exited",
                                   "health_check_option", "pm2_option"}
  /\ exitCode \in -1..255
  /\ (pc = "exited") = (exitCode >= 0)

\* the deploy script is not running
DeployIdle ==
  /\ script = Basic
  /\ dist = NoDist
  /\ backups = << >>
  /\ lastBackup = 0
  /\ clock = 0
  /\ pm2 = "absent"
  /\ logDir = FALSE
  /\ arg = ""
  /\ pc = "idle"
  /\ exitCode = -1
  /\ trapSet = FALSE
  /\ BACKUP_DIR = 0
  /\ invocations = 0
  /\ obs = FreshObs(NoDist, << >>)
  /\ run = [emptyStart |-> TRUE, firstDist |-> NoDist, allDeployed |-> TRUE]

\* ============================================ health_check, step by step
\* One call health_check "$url" "$max_attempts".  curl is given neither
\* --max-time nor --connect-timeout: a probe of a server that accepts the
\* connection and never answers does not return.
ProbeInit ==
  /\ MoreIdle
  /\ DeployIdle
  /\ HealthIdle
  /\ InstallIdle
  /\ SetupIdle
  /\ \E n \in 0..MaxAttempts :
       probe = [ pc |-> "while",
                 max_attempts |-> n,
                 attempt |-> 1,          \* local attempt=1
                 probes |-> 0,           \* curl commands started
                 failures |-> 0,         \* curl commands that returned non-zero
                 sleeps |-> << >>,       \* the sleeps taken, in seconds
                 result |-> "none" ]

\* while [[ $attempt -le $max_attempts ]] ... done; error "... failed"
health_check_while ==
  /\ probe.pc = "while"
  /\ probe' = IF probe.attempt <= probe.max_attempts
              THEN [probe EXCEPT !.pc = "curl"]
              ELSE [probe EXCEPT !.pc = "done", !.result = "unhealthy"]
  /\ UNCHANGED besideProbe

\* if curl -f -s "$url" > /dev/null; then success ...; return 0; fi
health_check_curl ==
  /\ probe.pc = "curl"
  /\ \E answer \in {"2xx", "fails", "never"} :
       probe' =
         IF answer = "2xx"
         THEN [probe EXCEPT !.probes = @ + 1, !.pc = "done",
                            !.result = "healthy"]
         ELSE IF answer = "fails"
         THEN [probe EXCEPT !.probes = @ + 1, !.failures = @ + 1,
                            !.pc = "sleep"]
         ELSE [probe EXCEPT !.probes = @ + 1, !.pc = "in curl"]
  /\ UNCHANGED besideProbe

\* warning ...; sleep 2; ((attempt++))
health_check_sleep ==
  /\ probe.pc = "sleep"
  /\ probe' = [probe EXCEPT !.sleeps = Append(@, SleepSeconds),
                            !.attempt = @ + 1, !.pc = "while"]
  /\ UNCHANGED besideProbe

ProbeNext == health_check_while \/ health_check_curl \/ health_check_sleep

ProbeSpec == ProbeInit /\ [][ProbeNext]_vars

\* every statement that can run does run
ProbeFairSpec == ProbeSpec /\ WF_vars(ProbeNext)

\* ===================================================== the health service
\* health-check.js: one Node.js process (PM2 fork mode, instances: 1).  Its
\* callbacks run one at a time; an async function gives way at each await.
\* Two origins of asynchronous work are followed: "timer", the initial run
\* of main and the setInterval callback, and "request", the requests of one
\* client connection, which are handled one after the other.
CheckNames == {"main_app", "filesystem", "system_resources"}

\* what http.request to the main application ends in
StatusCodes == {200, 399, 400, 503}
Answers ==
  {[kind |-> "response", statusCode |-> c] : c \in StatusCodes}
    \cup {[kind |-> "error", statusCode |-> 0],
          [kind |-> "timeout", statusCode |-> 0]}

\* success whenever a response arrives, whatever its status
checkMainApp_any_response(answer) ==
  [ name |-> "main_app",
    status |-> IF answer.kind = "response" THEN "healthy" ELSE "unhealthy",
    statusCode |-> answer.statusCode ]

\* success = res.statusCode >= 200 && res.statusCode < 400; the error and
\* timeout events resolve to unhealthy
checkMainApp(answer) ==
  [ name |-> "main_app",
    status |-> IF /\ answer.kind = "response"
                  /\ answer.statusCode >= 200
                  /\ answer.statusCode < 400
               THEN "healthy" ELSE "unhealthy",
    statusCode |-> answer.statusCode ]

\* distExists && indexExists && usagePercent < diskUsage; catch: unhealthy
checkFilesystem(distExists, indexExists, usagePercent, thrown) ==
  [ name |-> "filesystem",
    status |-> IF /\ ~thrown
                  /\ distExists
                  /\ indexExists
                  /\ usagePercent < diskUsage
               THEN "healthy" ELSE "unhealthy" ]

\* memoryUsagePercent < memoryUsage && cpuUsage < cpuUsage; catch: unhealthy
checkSystemResources(memoryUsagePercent, cpuPercent, thrown) ==
  [ name |-> "system_resources",
    status |-> IF /\ ~thrown
                  /\ memoryUsagePercent < memoryUsage
                  /\ cpuPercent < cpuUsage
               THEN "healthy" ELSE "unhealthy" ]

\* checks.some(check => check.status === 'healthy')
someHealthy(checks) == \E n \in DOMAIN checks : checks[n].status = "healthy"

\* checks.every(check => check.status === 'healthy')
allHealthy(checks) == \A n \in DOMAIN checks : checks[n].status = "healthy"

\* the new report keeping the filesystem entry of the stored one
runHealthChecks_merging(stored, checks, id) ==
  LET kept == DOMAIN stored.checks \cap {"filesystem"}
  IN  [ status |-> IF allHealthy(checks) THEN "healthy" ELSE "unhealthy",
        checks |-> [n \in DOMAIN checks |->
                     IF n \in kept THEN stored.checks[n] ELSE checks[n]],
        by |-> [n \in DOMAIN checks |->
                 IF n \in kept THEN stored.by[n] ELSE id] ]

\* healthStatus = { status: overallStatus, ..., checks: checks.reduce(...) }
runHealthChecks(stored, checks, id) ==
  [ status |-> IF allHealthy(checks) THEN "healthy" ELSE "unhealthy",
    checks |-> checks,
    by |-> [n \in DOMAIN checks |-> id] ]

\* ${status === 'healthy' ? 0 : 1}
gauge_inverted(status) == IF status = "healthy" THEN 0 ELSE 1

\* ${status === 'healthy' ? 1 : 0}
gauge(status) == IF status = "healthy" THEN 1 ELSE 0

handleHealthCheck(health, id) ==
  [ path |-> "/health",
    code |-> IF health.status = "healthy" THEN 200 ELSE 503,
    body |-> health,
    run |-> id ]

\* liveness answering as /health would from the stored report
handleLivenessCheck_by_health(stored) ==
  [ path |-> "/health/live",
    code |-> IF stored.status = "healthy" THEN 200 ELSE 503,
    body |-> [status |-> "alive"] ]

\* res.writeHead(200), whatever the stored report
handleLivenessCheck(stored) ==
  [ path |-> "/health/live",
    code |-> 200,
    body |-> [status |-> "alive"] ]

handleReadinessCheck(mainAppCheck) ==
  LET isReady == mainAppCheck.status = "healthy"
  IN  [ path |-> "/health/ready",
        code |-> IF isReady THEN 200 ELSE 503,
        body |-> [ status |-> IF isReady THEN "ready" ELSE "not_ready",
                   mainApp |-> mainAppCheck ] ]

\* the gauge lines of the text written; `health` is the report they were
\* computed from, kept beside them
handleMetrics(health, id) ==
  [ path |-> "/metrics",
    code |-> 200,
    body |-> [ portfolio_health_status |-> gauge(health.status),
               portfolio_check_status |->
                 [n \in DOMAIN health.checks |->
                    gauge(health.checks[n].status)] ],
    health |-> health,
    run |-> id ]

handleStatus == [path |-> "/status", code |-> 200, body |-> "running"]

NotFound == [path |-> "/", code |-> 404, body |-> "Not found"]

\* main has started the server and is in its initial runHealthChecks
HealthInit ==
  /\ MoreIdle
  /\ DeployIdle
  /\ ProbeIdle
  /\ InstallIdle
  /\ SetupIdle
  /\ healthStatus = InitialHealthStatus
  /\ inflight = ("timer" :> [ id |-> 1, path |-> "timer", results |-> << >>,
                              returned |-> NoReturn ])
  /\ runsStarted = 1
  /\ everCompleted = FALSE
  /\ response = NoResponse

\* an async call of `origin` begins and reaches its first await
Begin(origin, path, id) ==
  /\ origin \notin DOMAIN inflight
  /\ inflight' = (origin :> [ id |-> id, path |-> path, results |-> << >>,
                              returned |-> NoReturn ]) @@ inflight
  /\ response' = NoResponse
  /\ UNCHANGED <<healthStatus, everCompleted>>

\* the call of `origin` is over
End(origin) == inflight' = [o \in DOMAIN inflight \ {origin} |-> inflight[o]]

\* the sub-checks the call of `origin` awaits
Awaited(path) == IF path = "/health/ready" THEN {"main_app"} ELSE CheckNames

Pending(origin, name) ==
  /\ origin \in DOMAIN inflight
  /\ inflight[origin].returned = NoReturn
  /\ name \in Awaited(inflight[origin].path)
  /\ name \notin DOMAIN inflight[origin].results

Resolve(origin, check) ==
  /\ inflight' = [inflight EXCEPT ![origin].results = (check.name :> check) @@ @]
  /\ response' = NoResponse
  /\ UNCHANGED <<healthStatus, runsStarted, everCompleted>>

\* setInterval(async () => { await healthChecker.runHealthChecks() })
periodic_run ==
  /\ runsStarted < MaxRuns
  /\ Begin("timer", "timer", runsStarted + 1)
  /\ runsStarted' = runsStarted + 1
  /\ UNCHANGED besideHealth

\* case '/health': await this.handleHealthCheck(req, res)
health_request ==
  /\ runsStarted < MaxRuns
  /\ Begin("request", "/health", runsStarted + 1)
  /\ runsStarted' = runsStarted + 1
  /\ UNCHANGED besideHealth

\* case '/metrics': await this.handleMetrics(req, res)
metrics_request ==
  /\ runsStarted < MaxRuns
  /\ Begin("request", "/metrics", runsStarted + 1)
  /\ runsStarted' = runsStarted + 1
  /\ UNCHANGED besideHealth

\* case '/health/ready': await this.handleReadinessCheck(req, res)
ready_request ==
  /\ Begin("request", "/health/ready", 0)
  /\ UNCHANGED runsStarted
  /\ UNCHANGED besideHealth

\* case '/health/live', case '/status', default: answered at once
immediate_request ==
  /\ "request" \notin DOMAIN inflight
  /\ \E path \in {"/health/live", "/status", "/"} :
       response' = IF path = "/health/live"
                   THEN handleLivenessCheck(healthStatus)
                   ELSE IF path = "/status" THEN handleStatus
                   ELSE NotFound
  /\ UNCHANGED <<healthStatus, inflight, runsStarted, everCompleted>>
  /\ UNCHANGED besideHealth

checkMainApp_resolves ==
  /\ \E origin \in DOMAIN inflight, answer \in Answers :
       /\ Pending(origin, "main_app")
       /\ Resolve(origin, checkMainApp(answer))
  /\ UNCHANGED besideHealth

checkFilesystem_resolves ==
  /\ \E origin \in DOMAIN inflight, distExists \in BOOLEAN,
        indexExists \in BOOLEAN, thrown \in BOOLEAN,
        usagePercent \in {diskUsage - 1, diskUsage} :
       /\ Pending(origin, "filesystem")
       /\ Resolve(origin, checkFilesystem(distExists, indexExists,
                                          usagePercent, thrown))
  /\ UNCHANGED besideHealth

checkSystemResources_resolves ==
  /\ \E origin \in DOMAIN inflight, thrown \in BOOLEAN,
        memoryUsagePercent \in {memoryUsage - 1, memoryUsage},
        cpuPercent \in {cpuUsage - 1, cpuUsage} :
       /\ Pending(origin, "system_resources")
       /\ Resolve(origin, checkSystemResources(memoryUsagePercent,
                                               cpuPercent, thrown))
  /\ UNCHANGED besideHealth

\* runHealthChecks after `await Promise.all([...])`: the assignment of
\* healthStatus and `return healthStatus`, in one turn of the event loop
runHealthChecks_completes ==
  /\ \E origin \in DOMAIN inflight :
       LET call == inflight[origin]
       IN  /\ call.path # "/health/ready"
           /\ call.returned = NoReturn
           /\ DOMAIN call.results = CheckNames
           /\ healthStatus' =
                 runHealthChecks(healthStatus, call.results, call.id)
           /\ IF origin = "timer" THEN End(origin)
              ELSE inflight' = [inflight EXCEPT
                                  ![origin].results = << >>,
                                  ![origin].returned = healthStatus']
  /\ everCompleted' = TRUE
  /\ response' = NoResponse
  /\ UNCHANGED runsStarted
  /\ UNCHANGED besideHealth

\* the handler goes on after its await and writes the response
request_answered ==
  /\ "request" \in DOMAIN inflight
  /\ LET call == inflight["request"]
     IN  \/ /\ call.path = "/health"
            /\ call.returned # NoReturn
            /\ response' = handleHealthCheck(call.returned, call.id)
         \/ /\ call.path = "/metrics"
            /\ call.returned # NoReturn
            /\ response' = handleMetrics(call.returned, call.id)
         \/ /\ call.path = "/health/ready"
            /\ "main_app" \in DOMAIN call.results
            /\ response' = handleReadinessCheck(call.results["main_app"])
  /\ End("request")
  /\ UNCHANGED <<healthStatus, runsStarted, everCompleted>>
  /\ UNCHANGED besideHealth

HealthNext ==
  \/ periodic_run \/ health_request \/ metrics_request \/ ready_request
  \/ immediate_request \/ checkMainApp_resolves \/ checkFilesystem_resolves
  \/ checkSystemResources_resolves \/ runHealthChecks_completes
  \/ request_answered

HealthSpec == HealthInit /\ [][HealthNext]_vars

\* ============================================================= install.sh
\* The installation script: `parse_arguments "$@"`, then main, under
\* `set -euo pipefail`.  Its effects on the host are collected in
\* inst.changes; lines written to the log file are not effects.
InstallTokens ==
  {"--skip-domain-check", "--dry-run", "--force", "--help",
   "example.com", "admin@example.com", "extra"}

RECURSIVE SeqsUpTo(_, _)
SeqsUpTo(S, n) ==
  IF n = 0 THEN {<< >>}
  ELSE LET shorter == SeqsUpTo(S, n - 1)
       IN  shorter \cup {Append(q, x) : q \in shorter, x \in S}

\* the shell variables of the Configuration block, and the run's record
InstallStart(args) ==
  [ pc |-> "parse_arguments",
    args |-> args,
    DOMAIN_ |-> "",
    EMAIL |-> "",
    SKIP_DOMAIN_CHECK |-> FALSE,
    DRY_RUN |-> FALSE,
    FORCE_INSTALL |-> FALSE,
    changes |-> {},               \* effects on the host so far
    tracked |-> << >>,            \* INSTALLATION_STEPS
    exitCode |-> -1 ]

\* the while/case loop of parse_arguments
RECURSIVE install_parse(_, _)
install_parse(args, st) ==
  IF args = << >> THEN [st EXCEPT !.pc = "validate_inputs"]
  ELSE LET a == Head(args)
           rest == Tail(args)
       IN  IF a = "--skip-domain-check"
           THEN install_parse(rest, [st EXCEPT !.SKIP_DOMAIN_CHECK = TRUE])
           ELSE IF a = "--dry-run"
           THEN install_parse(rest, [st EXCEPT !.DRY_RUN = TRUE])
           ELSE IF a = "--force"
           THEN install_parse(rest, [st EXCEPT !.FORCE_INSTALL = TRUE])
           ELSE IF a = "--help"
           THEN [st EXCEPT !.pc = "exited", !.exitCode = 0]
           ELSE IF st.DOMAIN_ = ""
           THEN install_parse(rest, [st EXCEPT !.DOMAIN_ = a])
           ELSE IF st.EMAIL = ""
           THEN install_parse(rest, [st EXCEPT !.EMAIL = a])
           ELSE [st EXCEPT !.pc = "exited", !.exitCode = 1]

\* the regular expressions of validate_inputs on the tokens used here
domain_ok(d) == d = "example.com"
email_ok(e) == e = "admin@example.com"

\* the calls of main after check_system, in order
install_steps ==
  << "install_prerequisites", "install_nodejs", "install_pm2",
     "install_nginx", "install_ssl_tools", "setup_application",
     "build_and_start", "configure_nginx", "generate_ssl",
     "configure_firewall", "configure_fail2ban", "configure_auto_updates",
     "run_verification", "show_completion" >>

install_after(step) ==
  LET i == CHOOSE k \in DOMAIN install_steps : install_steps[k] = step
  IN  IF i < Len(install_steps) THEN install_steps[i + 1] ELSE "exited"

\* execute_with_log: under DRY_RUN the command is logged, not run
execute_with_log(st, effects) == IF st.DRY_RUN THEN {} ELSE effects

\* track_step: under DRY_RUN nothing is recorded
track_step(st, step) ==
  IF st.DRY_RUN THEN st.tracked ELSE Append(st.tracked, step)

\* the step returned and main calls the next one
InstallGoesOn(step, effects, tracked) ==
  inst' = [inst EXCEPT
             !.pc = install_after(step),
             !.exitCode = IF install_after(step) = "exited" THEN 0 ELSE @,
             !.changes = @ \cup effects,
             !.tracked = tracked]

\* error, error_with_output or a failing command under errexit
InstallFails(effects) ==
  inst' = [inst EXCEPT !.pc = "exited", !.exitCode = 1,
                       !.changes = @ \cup effects]

InstallInit ==
  /\ MoreIdle
  /\ DeployIdle
  /\ ProbeIdle
  /\ HealthIdle
  /\ SetupIdle
  /\ \E args \in SeqsUpTo(InstallTokens, MaxArgs) : inst = InstallStart(args)

install_parse_arguments ==
  /\ inst.pc = "parse_arguments"
  /\ inst' = install_parse(inst.args, inst)
  /\ UNCHANGED besideInstall

\* main: touch "$LOG_FILE", show_banner, validate_inputs
validate_inputs ==
  /\ inst.pc = "validate_inputs"
  /\ \E installed \in BOOLEAN :
       IF \/ inst.DOMAIN_ = ""
          \/ inst.EMAIL = ""
          \/ ~inst.SKIP_DOMAIN_CHECK /\ ~domain_ok(inst.DOMAIN_)
          \/ ~email_ok(inst.EMAIL)
          \/ ~inst.FORCE_INSTALL /\ installed
       THEN InstallFails({})
       ELSE inst' = [inst EXCEPT !.pc = "check_root"]
  /\ UNCHANGED besideInstall

\* check_root, check_system, and the DRY RUN MODE warning of main
check_root ==
  /\ inst.pc = "check_root"
  /\ \E root \in BOOLEAN :
       IF root THEN inst' = [inst EXCEPT !.pc = install_steps[1]]
       ELSE InstallFails({})
  /\ UNCHANGED besideInstall

\* In the steps below `ok` is whether the commands that are run succeed; a
\* failure is taken at the first command run, its effects not having begun.
install_prerequisites ==
  /\ inst.pc = "install_prerequisites"
  /\ \E ok \in BOOLEAN :
       LET e == execute_with_log(inst, {"packages: essential"})
       IN  IF ok \/ inst.DRY_RUN
           THEN InstallGoesOn("install_prerequisites", e,
                              track_step(inst, "prerequisites"))
           ELSE InstallFails({})
  /\ UNCHANGED besideInstall

\* command -v node, before and after the installation commands
install_nodejs ==
  /\ inst.pc = "install_nodejs"
  /\ \E node \in {"absent", "old", "20+"}, ok \in BOOLEAN :
       LET e == execute_with_log(inst, {"package: nodejs"})
       IN  IF node = "20+"
           THEN InstallGoesOn("install_nodejs", {}, inst.tracked)
           ELSE IF e = {}
           THEN \* nothing was installed: node is still absent or old
                InstallFails({})
           ELSE IF ok
           THEN InstallGoesOn("install_nodejs", e, track_step(inst, "nodejs"))
           ELSE InstallFails({})
  /\ UNCHANGED besideInstall

install_pm2 ==
  /\ inst.pc = "install_pm2"
  /\ \E present \in BOOLEAN, ok \in BOOLEAN :
       LET e == execute_with_log(inst, {"package: pm2"})
       IN  IF present
           THEN InstallGoesOn("install_pm2", {}, track_step(inst, "pm2"))
           ELSE IF e = {}
           THEN \* nothing was installed: command -v pm2 still fails
                InstallFails({})
           ELSE IF ok
           THEN InstallGoesOn("install_pm2", e, track_step(inst, "pm2"))
           ELSE InstallFails({})
  /\ UNCHANGED besideInstall

install_nginx ==
  /\ inst.pc = "install_nginx"
  /\ \E nginx \in {"absent", "stopped", "active"}, defaultSite \in BOOLEAN,
        ok \in BOOLEAN :
       LET cmds == (IF nginx = "absent" THEN {"package: nginx"} ELSE {})
                     \cup (IF nginx # "active" THEN {"service: nginx"} ELSE {})
                     \cup {"service: nginx enabled"}
                     \cup (IF defaultSite THEN {"config: default site removed"}
                           ELSE {})
           e == execute_with_log(inst, cmds)
       IN  IF ok \/ inst.DRY_RUN
           THEN InstallGoesOn("install_nginx", e, track_step(inst, "nginx"))
           ELSE InstallFails({})
  /\ UNCHANGED besideInstall

\* apt-get install -y certbot python3-certbot-nginx, run directly
install_ssl_tools ==
  /\ inst.pc = "install_ssl_tools"
  /\ \E ok \in BOOLEAN :
       IF ok THEN InstallGoesOn("install_ssl_tools", {"package: certbot"},
                                inst.tracked)
       ELSE InstallFails({})
  /\ UNCHANGED besideInstall

\* mktemp -d, git clone, bash setup-service.sh, cp -r, chown, rm -rf
setup_application ==
  /\ inst.pc = "setup_application"
  /\ \E ok \in BOOLEAN :
       IF ok THEN InstallGoesOn("setup_application",
                                {"repository cloned", "setup-service.sh run",
                                 "files copied to APP_DIR"}, inst.tracked)
       ELSE InstallFails({})
  /\ UNCHANGED besideInstall

\* npm ci, npm run build, .env, npm run start:pm2, systemctl start portfolio
build_and_start ==
  /\ inst.pc = "build_and_start"
  /\ \E ok \in BOOLEAN :
       IF ok THEN InstallGoesOn("build_and_start",
                                {"application built", "file: .env",
                                 "service: pm2 processes",
                                 "service: portfolio"},
                                track_step(inst, "application"))
       ELSE InstallFails({})
  /\ UNCHANGED besideInstall

\* cp nginx.conf, sed -i, ln -s
configure_nginx ==
  /\ inst.pc = "configure_nginx"
  /\ \E ok \in BOOLEAN :
       IF ok THEN InstallGoesOn("configure_nginx", {"config: nginx site"},
                                inst.tracked)
       ELSE InstallFails({})
  /\ UNCHANGED besideInstall

\* certbot and the nginx stop/start/reload go through execute_with_log;
\* nginx -t is run directly and changes nothing
generate_ssl ==
  /\ inst.pc = "generate_ssl"
  /\ \E certExists \in BOOLEAN, ok \in BOOLEAN, testOk \in BOOLEAN :
       LET e == execute_with_log(inst, {"certificate",
                                        "service: nginx restarted"})
       IN  IF certExists
           THEN InstallGoesOn("generate_ssl", {}, inst.tracked)
           ELSE IF ~(ok \/ inst.DRY_RUN) THEN InstallFails({})
           ELSE IF ~testOk THEN InstallFails(e)
           ELSE InstallGoesOn("generate_ssl", e, track_step(inst, "ssl"))
  /\ UNCHANGED besideInstall

\* ufw --force reset, ufw allow ..., ufw --force enable
configure_firewall ==
  /\ inst.pc = "configure_firewall"
  /\ \E ok \in BOOLEAN :
       IF ok THEN InstallGoesOn("configure_firewall", {"config: firewall"},
                                track_step(inst, "firewall"))
       ELSE InstallFails({})
  /\ UNCHANGED besideInstall

\* cat > /etc/fail2ban/jail.local, systemctl restart fail2ban
configure_fail2ban ==
  /\ inst.pc = "configure_fail2ban"
  /\ \E ok \in BOOLEAN :
       IF ok THEN InstallGoesOn("configure_fail2ban",
                                {"config: fail2ban", "service: fail2ban"},
                                inst.tracked)
       ELSE InstallFails({})
  /\ UNCHANGED besideInstall

\* echo ... >> 50unattended-upgrades, dpkg-reconfigure
configure_auto_updates ==
  /\ inst.pc = "configure_auto_updates"
  /\ \E ok \in BOOLEAN :
       IF ok THEN InstallGoesOn("configure_auto_updates",
                                {"config: auto updates"}, inst.tracked)
       ELSE InstallFails({})
  /\ UNCHANGED besideInstall

\* systemctl is-active, pm2 describe, curl: reads only
run_verification ==
  /\ inst.pc = "run_verification"
  /\ \E ok \in BOOLEAN :
       IF ok THEN InstallGoesOn("run_verification", {}, inst.tracked)
       ELSE InstallFails({})
  /\ UNCHANGED besideInstall

show_completion ==
  /\ inst.pc = "show_completion"
  /\ InstallGoesOn("show_completion", {}, inst.tracked)
  /\ UNCHANGED besideInstall

InstallNext ==
  \/ install_parse_arguments \/ validate_inputs \/ check_root
  \/ install_prerequisites \/ install_nodejs \/ install_pm2
  \/ install_nginx \/ install_ssl_tools \/ setup_application
  \/ build_and_start \/ configure_nginx \/ generate_ssl
  \/ configure_firewall \/ configure_fail2ban \/ configure_auto_updates
  \/ run_verification \/ show_completion

InstallSpec == InstallInit /\ [][InstallNext]_vars

\* ======================================================= setup-service.sh
\* The service setup script (the lines of the file up to the second
\* shebang).  Its last statement is
\*   if [[ $# -gt 0 ]]; then parse_arguments "$@"; else main; fi
SetupTokens ==
  {"--repair", "--dry-run", "--help", "--uninstall", "--status", "--other"}

SetupStart(args) ==
  [ pc |-> "dispatch",
    args |-> args,
    REPAIR_MODE |-> FALSE,
    DRY_RUN |-> FALSE,
    called |-> << >>,             \* functions of the script called, in order
    exitCode |-> -1 ]

\* the functions main calls when REPAIR_MODE is false
setup_flow ==
  << "check_root", "install_prerequisites", "create_user",
     "create_directories", "install_service", "setup_logrotate",
     "setup_sudo", "setup_nginx", "create_env_file", "setup_firewall",
     "verify_installation", "show_next_steps" >>

\* the while/case loop of parse_arguments; the shell ends with status 0
\* when the loop has consumed the arguments and the script has no more
\* statements
RECURSIVE setup_parse(_, _)
setup_parse(args, st) ==
  IF args = << >> THEN [st EXCEPT !.pc = "exited", !.exitCode = 0]
  ELSE LET a == Head(args)
       IN  IF a = "--repair"
           THEN setup_parse(Tail(args), [st EXCEPT !.REPAIR_MODE = TRUE])
           ELSE IF a = "--dry-run"
           THEN setup_parse(Tail(args), [st EXCEPT !.DRY_RUN = TRUE])
           ELSE IF a = "--help"
           THEN [st EXCEPT !.called = Append(@, "show_usage"),
                           !.pc = "exited", !.exitCode = 0]
           ELSE IF a = "--uninstall"
           THEN [st EXCEPT !.called = Append(@, "uninstall_service"),
                           !.pc = "exited", !.exitCode = 0]
           ELSE IF a = "--status"
           THEN [st EXCEPT !.pc = "exited", !.exitCode = 0]
           ELSE [st EXCEPT !.pc = "exited", !.exitCode = 1]

SetupInit ==
  /\ MoreIdle
  /\ DeployIdle
  /\ ProbeIdle
  /\ HealthIdle
  /\ InstallIdle
  /\ \E args \in SeqsUpTo(SetupTokens, MaxArgs) : setup = SetupStart(args)

\* if [[ $# -gt 0 ]]; then parse_arguments "$@"; else main; fi
setup_dispatch ==
  /\ setup.pc = "dispatch"
  /\ setup' = [setup EXCEPT !.pc = IF Len(setup.args) > 0
                                   THEN "parse_arguments" ELSE "main"]
  /\ UNCHANGED besideSetup

setup_parse_arguments ==
  /\ setup.pc = "parse_arguments"
  /\ setup' = setup_parse(setup.args,
                          [setup EXCEPT !.called = Append(@, "parse_arguments")])
  /\ UNCHANGED besideSetup

\* main: repair_installation in repair mode, else the setup flow, which
\* ends at the first function that fails
setup_main ==
  /\ setup.pc = "main"
  /\ LET st == [setup EXCEPT !.called = Append(@, "main")]
     IN  IF setup.REPAIR_MODE
         THEN \E ok \in BOOLEAN :
                setup' = [st EXCEPT
                            !.called = Append(@, "repair_installation"),
                            !.pc = "exited",
                            !.exitCode = IF ok THEN 0 ELSE 1]
         ELSE \E n \in 1..Len(setup_flow), ok \in BOOLEAN :
                /\ ok => n = Len(setup_flow)
                /\ setup' = [st EXCEPT
                               !.called = @ \o SubSeq(setup_flow, 1, n),
                               !.pc = "exited",
                               !.exitCode = IF ok THEN 0 ELSE 1]
  /\ UNCHANGED besideSetup

SetupNext == setup_dispatch \/ setup_parse_arguments \/ setup_main

SetupSpec == SetupInit /\ [][SetupNext]_vars

\* ------------------------------ install.sh: DOMAIN, EMAIL and their uses
\* A shell word is the sequence of its characters.
InstallBasic == "scripts/install.sh"
InstallEnhanced == "unnamed/part_005"
InstallScripts == {InstallBasic, InstallEnhanced}

Letters == {"a", "b", "c", "d", "e", "f", "g", "h", "i", "j", "k", "l", "m",
            "n", "o", "p", "q", "r", "s", "t", "u", "v", "w", "x", "y", "z"}
Digits == {"0", "1", "2", "3", "4", "5", "6", "7", "8", "9"}
Alnum == Letters \cup Digits
Empty == << >>
Dot == <<".">>

OptSkipDomainCheck ==
  <<"-", "-", "s", "k", "i", "p", "-", "d", "o", "m", "a", "i", "n", "-", "c",
     "h", "e", "c", "k">>
OptDryRun == <<"-", "-", "d", "r", "y", "-", "r", "u", "n">>
OptForce == <<"-", "-", "f", "o", "r", "c", "e">>
OptHelp == <<"-", "-", "h", "e", "l", "p">>
OptH == <<"-", "h">>
AdminEmail ==
  <<"a", "d", "m", "i", "n", "@", "e", "x", "a", "m", "p", "l", "e", ".", "c",
     "o", "m">>
ExtraWord == <<"e", "x", "t", "r", "a">>
Www == <<"w", "w", "w", ".">>

RECURSIVE Join(_, _)
Join(parts, sep) ==
  IF parts = << >> THEN << >>
  ELSE IF Len(parts) = 1 THEN parts[1]
  ELSE parts[1] \o sep \o Join(Tail(parts), sep)

\* the fields of s between the occurrences of the character c
RECURSIVE Split(_, _)
Split(s, c) ==
  IF \A i \in DOMAIN s : s[i] # c THEN <<s>>
  ELSE LET i == CHOOSE k \in DOMAIN s :
                  s[k] = c /\ \A j \in 1..(k - 1) : s[j] # c
       IN  <<SubSeq(s, 1, i - 1)>> \o Split(SubSeq(s, i + 1, Len(s)), c)

\* [[ "$s" == p* ]]
StartsWith(s, p) == Len(s) >= Len(p) /\ SubSeq(s, 1, Len(p)) = p

\* grep -q p
Contains(s, p) ==
  \E i \in 1..(Len(s) - Len(p) + 1) : SubSeq(s, i, i + Len(p) - 1) = p

\* sed "s/pat/repl/g" on one line: every occurrence, from the left
RECURSIVE sed_s(_, _, _)
sed_s(s, pat, repl) ==
  IF Len(s) < Len(pat) THEN s
  ELSE IF SubSeq(s, 1, Len(pat)) = pat
       THEN repl \o sed_s(SubSeq(s, Len(pat) + 1, Len(s)), pat, repl)
       ELSE <<s[1]>> \o sed_s(Tail(s), pat, repl)

\* {1,61} and {0,61} of the domain patterns, {2,} of the top-level domain
BasicMidMin == 1
MidMax == 61
TldMin == 2

\* ^[a-zA-Z0-9][a-zA-Z0-9-]{1,61}[a-zA-Z0-9]\.[a-zA-Z]{2,}$
basic_domain_regex(d) ==
  LET ls == Split(d, ".")
  IN  /\ Len(ls) = 2
      /\ Len(ls[1]) >= BasicMidMin + 2
      /\ Len(ls[1]) <= MidMax + 2
      /\ ls[1][1] \in Alnum
      /\ ls[1][Len(ls[1])] \in Alnum
      /\ \A i \in 2..(Len(ls[1]) - 1) : ls[1][i] \in Alnum \cup {"-"}
      /\ Len(ls[2]) >= TldMin
      /\ \A i \in DOMAIN ls[2] : ls[2][i] \in Letters

\* [a-zA-Z0-9]([a-zA-Z0-9-]{0,61}[a-zA-Z0-9])?
label_regex(l) ==
  /\ Len(l) >= 1
  /\ Len(l) <= MidMax + 2
  /\ l[1] \in Alnum
  /\ l[Len(l)] \in Alnum
  /\ \A i \in 2..(Len(l) - 1) : l[i] \in Alnum \cup {"-"}

\* ^label(\.label)+$
enhanced_domain_regex(d) ==
  LET ls == Split(d, ".")
  IN  Len(ls) >= 2 /\ \A i \in DOMAIN ls : label_regex(ls[i])

\* domain_parts=(${DOMAIN//./ }): word splitting drops empty fields
domain_parts(d) == SelectSeq(Split(d, "."), LAMBDA l : l # << >>)

\* ^[a-zA-Z0-9._%+-]+@[a-zA-Z0-9.-]+\.[a-zA-Z]{2,}$
email_regex(e) ==
  \E i \in DOMAIN e, j \in DOMAIN e :
    /\ e[i] = "@" /\ e[j] = "."
    /\ 1 < i /\ i + 1 < j /\ Len(e) - j >= TldMin
    /\ \A k \in 1..(i - 1) : e[k] \in Alnum \cup {".", "_", "%", "+", "-"}
    /\ \A k \in (i + 1)..(j - 1) : e[k] \in Alnum \cup {".", "-"}
    /\ \A k \in (j + 1)..Len(e) : e[k] \in Letters

\* the state of one run: shell variables, the message of error, the site
\* file of nginx and the names given to certbot
InputStart(s, args) ==
  [ pc |-> "parse_arguments", script |-> s, args |-> args,
    DOMAIN_ |-> Empty, EMAIL |-> Empty,
    SKIP_DOMAIN_CHECK |-> FALSE, DRY_RUN |-> FALSE, FORCE_INSTALL |-> FALSE,
    message |-> "", conf |-> << >>, cert |-> << >>, exitCode |-> -1 ]

\* error "...": the message is logged and the script exits with 1
InputError(st, msg) ==
  [st EXCEPT !.pc = "exited", !.exitCode = 1, !.message = msg]

\* DOMAIN="${1:-}"; EMAIL="${2:-}"
basic_arguments(args, st) ==
  [st EXCEPT !.DOMAIN_ = IF Len(args) >= 1 THEN args[1] ELSE Empty,
             !.EMAIL = IF Len(args) >= 2 THEN args[2] ELSE Empty,
             !.pc = "validate_inputs"]

\* while [[ $# -gt 0 ]]; do case $1 in ... esac; done
RECURSIVE enhanced_arguments(_, _)
enhanced_arguments(args, st) ==
  IF args = << >> THEN [st EXCEPT !.pc = "validate_inputs"]
  ELSE LET a == Head(args)
       IN  IF a = OptSkipDomainCheck
           THEN enhanced_arguments(Tail(args),
                                   [st EXCEPT !.SKIP_DOMAIN_CHECK = TRUE])
           ELSE IF a = OptDryRun
           THEN enhanced_arguments(Tail(args), [st EXCEPT !.DRY_RUN = TRUE])
           ELSE IF a = OptForce
           THEN enhanced_arguments(Tail(args),
                                   [st EXCEPT !.FORCE_INSTALL = TRUE])
           ELSE IF a \in {OptHelp, OptH}
           THEN [st EXCEPT !.pc = "exited", !.exitCode = 0,
                           !.message = "usage"]
           ELSE IF st.DOMAIN_ = Empty
           THEN enhanced_arguments(Tail(args), [st EXCEPT !.DOMAIN_ = a])
           ELSE IF st.EMAIL = Empty
           THEN enhanced_arguments(Tail(args), [st EXCEPT !.EMAIL = a])
           ELSE InputError(st, "Unknown argument")

\* validate_inputs of scripts/install.sh: the message of the first failing
\* test, "" when all pass
basic_validate(st) ==
  IF st.DOMAIN_ = Empty THEN "Domain name is required"
  ELSE IF st.EMAIL = Empty THEN "Email address is required"
  ELSE IF ~basic_domain_regex(st.DOMAIN_) THEN "Invalid domain format"
  ELSE IF ~email_regex(st.EMAIL) THEN "Invalid email format"
  ELSE ""

\* validate_inputs of the enhanced script
enhanced_validate(st, installed) ==
  LET parts == domain_parts(st.DOMAIN_)
  IN  IF st.DOMAIN_ = Empty THEN "Domain name is required"
      ELSE IF st.EMAIL = Empty THEN "Email address is required"
      ELSE IF ~st.SKIP_DOMAIN_CHECK /\ ~enhanced_domain_regex(st.DOMAIN_)
      THEN "Invalid domain format"
      ELSE IF ~st.SKIP_DOMAIN_CHECK /\ Len(parts) < 2
      THEN "Domain must have at least 2 parts"
      ELSE IF ~st.SKIP_DOMAIN_CHECK /\ Len(parts[Len(parts)]) < TldMin
      THEN "Invalid top-level domain"
      ELSE IF ~email_regex(st.EMAIL) THEN "Invalid email format"
      ELSE IF ~st.FORCE_INSTALL /\ installed
      THEN "Portfolio appears to already be installed"
      ELSE ""

\* nginx.conf as cloned: the lines that name the domain
YourDomain ==
  <<"y", "o", "u", "r", "-", "d", "o", "m", "a", "i", "n", ".", "c", "o",
     "m">>
WwwYourDomain ==
  <<"w", "w", "w", ".", "y", "o", "u", "r", "-", "d", "o", "m", "a", "i", "n",
     ".", "c", "o", "m">>
SpaceWwwYourDomain ==
  <<" ", "w", "w", "w", ".", "y", "o", "u", "r", "-", "d", "o", "m", "a", "i",
     "n", ".", "c", "o", "m">>
NginxTemplate ==
  << <<"s", "e", "r", "v", "e", "r", "_", "n", "a", "m", "e", " ", "y", "o",
     "u", "r", "-", "d", "o", "m", "a", "i", "n", ".", "c", "o", "m", " ",
     "w", "w", "w", ".", "y", "o", "u", "r", "-", "d", "o", "m", "a", "i",
     "n", ".", "c", "o", "m", ";">>,
     <<"l", "i", "v", "e", "/", "y", "o", "u", "r", "-", "d", "o", "m", "a",
        "i", "n", ".", "c", "o", "m", "/", "c", "h", "a", "i", "n", ".", "p",
        "e", "m", ";">> >>

sed_i(file, pat, repl) == [n \in DOMAIN file |-> sed_s(file[n], pat, repl)]

\* the two sed commands of scripts/install.sh
basic_nginx(d) ==
  sed_i(sed_i(NginxTemplate, YourDomain, d), WwwYourDomain, Www \o d)

\* the first sed command of the enhanced script, then the one its
\* www logic chooses
enhanced_nginx(d) ==
  LET first == sed_i(NginxTemplate, YourDomain, d)
  IN  IF StartsWith(d, Www) THEN sed_i(first, WwwYourDomain, d)
      ELSE IF Len(domain_parts(d)) = 2
           THEN sed_i(first, WwwYourDomain, Www \o d)
           ELSE sed_i(first, SpaceWwwYourDomain, Empty)

\* certbot certonly --standalone -d "$DOMAIN" -d "www.$DOMAIN"
basic_cert_domains(d) == <<d, Www \o d>>

\* cert_domains="-d $DOMAIN", and -d www.$DOMAIN for a second-level domain
enhanced_cert_domains(d) ==
  IF ~StartsWith(d, Www) /\ Len(domain_parts(d)) = 2
  THEN <<d, Www \o d>>
  ELSE <<d>>

\* the labels the domains are drawn from, and the words of the argument
\* lists
LabelPool ==
  { <<"w", "w", "w">>, <<"i", "n", "f", "o">>, <<"a", "p", "i">>, <<"v",
     "2">>, <<"e", "x", "a", "m", "p", "l", "e">>, <<"c", "o", "m">>, <<"x",
     "y", "z">>, <<"c">>, <<"-", "a">>,
    <<"a", "_", "b">> }
SampleDomains ==
  {Join(ls, Dot) : ls \in SeqsUpTo(LabelPool, MaxLabels) \ {<< >>}}
ArgWords ==
  { Join(<<<<"i", "n", "f", "o">>, <<"e", "x", "a", "m", "p", "l",
     "e">>, <<"c", "o", "m">>>>, Dot), AdminEmail, ExtraWord,
    OptSkipDomainCheck, OptDryRun, OptForce, OptHelp }
InputArgLists ==
  {<<d, AdminEmail>> : d \in SampleDomains}
    \cup {<<OptSkipDomainCheck, d, AdminEmail>> : d \in SampleDomains}
    \cup SeqsUpTo(ArgWords, MaxWords)

InputInit ==
  /\ DeployIdle
  /\ ProbeIdle
  /\ HealthIdle
  /\ InstallIdle
  /\ SetupIdle
  /\ VerifyIdle
  /\ EffectIdle
  /\ \E s \in InstallScripts, args \in InputArgLists :
       inp = InputStart(s, args)

\* the configuration lines 12-13 of scripts/install.sh; parse_arguments
\* "$@" in main of the enhanced script
input_parse_arguments ==
  /\ inp.pc = "parse_arguments"
  /\ inp' = IF inp.script = InstallBasic
            THEN basic_arguments(inp.args, inp)
            ELSE enhanced_arguments(inp.args, inp)
  /\ UNCHANGED besideInput

input_validate_inputs ==
  /\ inp.pc = "validate_inputs"
  /\ \E installed \in BOOLEAN :
       LET msg == IF inp.script = InstallBasic THEN basic_validate(inp)
                  ELSE enhanced_validate(inp, installed)
       IN  inp' = IF msg = "" THEN [inp EXCEPT !.pc = "install"]
                  ELSE InputError(inp, msg)
  /\ UNCHANGED besideInput

\* check_root ... build_and_start: the steps between, which use neither
\* variable to decide anything; any of them may end the script
input_install ==
  /\ inp.pc = "install"
  /\ \E ok \in BOOLEAN :
       inp' = IF ok THEN [inp EXCEPT !.pc = "configure_nginx"]
              ELSE [inp EXCEPT !.pc = "exited", !.exitCode = 1]
  /\ UNCHANGED besideInput

input_configure_nginx ==
  /\ inp.pc = "configure_nginx"
  /\ inp' = [inp EXCEPT
       !.conf = IF inp.script = InstallBasic THEN basic_nginx(inp.DOMAIN_)
                ELSE enhanced_nginx(inp.DOMAIN_),
       !.pc = "generate_ssl"]
  /\ UNCHANGED besideInput

\* the enhanced script returns at once when /etc/letsencrypt/live/$DOMAIN
\* exists
input_generate_ssl ==
  /\ inp.pc = "generate_ssl"
  /\ \E exists \in BOOLEAN :
       inp' = IF inp.script = InstallEnhanced /\ exists
              THEN [inp EXCEPT !.pc = "configured"]
              ELSE [inp EXCEPT
                     !.cert = IF inp.script = InstallBasic
                              THEN basic_cert_domains(inp.DOMAIN_)
                              ELSE enhanced_cert_domains(inp.DOMAIN_),
                     !.pc = "configured"]
  /\ UNCHANGED besideInput

InputNext ==
  \/ input_parse_arguments \/ input_validate_inputs \/ input_install
  \/ input_configure_nginx \/ input_generate_ssl

InputSpec == InputInit /\ [][InputNext]_vars

\* ------------------- the deployment verification script (set -euo pipefail)
\* scripts/setup-service.sh from its second #!/bin/bash on.  A result is
\* "pass", "fail" or "warn"; host is what the commands of the first group of
\* each mode find on the server.
Outcomes == {"pass", "fail", "warn"}
Commands == {"systemctl", "curl", "node", "npm", "pm2"}
CommandOrder == <<"systemctl", "curl", "node", "npm", "pm2">>
NoSummary == [printed |-> FALSE]

Hosts ==
  [ root : BOOLEAN, commands : SUBSET Commands,
    service_file : BOOLEAN, loaded : BOOLEAN, enabled : BOOLEAN,
    active : BOOLEAN, no_failed_units : BOOLEAN,
    port : BOOLEAN, health_port : BOOLEAN,
    responds : BOOLEAN, health_responds : BOOLEAN ]

VerifyStart(a, h) ==
  [ pc |-> "case", arg |-> a, host |-> h,
    CHECKS_PASSED |-> 0, CHECKS_FAILED |-> 0, CHECKS_WARNED |-> 0,
    results |-> << >>,        \* the results logged by the check groups
    groups |-> << >>,         \* the functions entered
    summary |-> NoSummary,    \* the counts generate_summary printed
    exitCode |-> -1 ]

\* ((N++)) as a command: the value of the expression is the value before
\* the increment, and the command fails when that value is 0
post_increment_status(n) == IF n = 0 THEN 1 ELSE 0

\* a failing command outside a condition ends the script (set -e)
verify_errexit(st, status) ==
  IF status = 0 THEN st ELSE [st EXCEPT !.pc = "exited", !.exitCode = status]

\* success "..." / error "..." / warning "...": the log line, then the
\* increment of the counter as the last command of the function
count(st, outcome) ==
  IF outcome = "pass"
  THEN verify_errexit([st EXCEPT !.CHECKS_PASSED = @ + 1],
                      post_increment_status(st.CHECKS_PASSED))
  ELSE IF outcome = "fail"
  THEN verify_errexit([st EXCEPT !.CHECKS_FAILED = @ + 1],
                      post_increment_status(st.CHECKS_FAILED))
  ELSE verify_errexit([st EXCEPT !.CHECKS_WARNED = @ + 1],
                      post_increment_status(st.CHECKS_WARNED))

\* the results of a group, reported one after the other while the script
\* is alive
RECURSIVE report_results(_, _)
report_results(results, st) ==
  IF results = << >> \/ st.pc = "exited" THEN st
  ELSE report_results(Tail(results),
              count([st EXCEPT !.results = Append(@, Head(results))],
                    Head(results)))

PassOr(b, other) == IF b THEN "pass" ELSE other

check_prerequisites_results(h) ==
  <<PassOr(h.root, "warn")>>
    \o [i \in 1..Len(CommandOrder) |->
         PassOr(CommandOrder[i] \in h.commands, "fail")]
    \o (IF "node" \in h.commands THEN <<"pass">> ELSE << >>)
    \o (IF "pm2" \in h.commands THEN <<"pass">> ELSE << >>)

\* without the service file the function returns 1 after error
check_systemd_service_results(h) ==
  IF ~h.service_file THEN <<"fail">>
  ELSE <<"pass", PassOr(h.loaded, "fail"), PassOr(h.enabled, "fail"),
         PassOr(h.active, "fail"), PassOr(h.no_failed_units, "warn")>>

check_network_results(h) ==
  <<PassOr(h.port, "fail"), PassOr(h.health_port, "warn"),
    PassOr(h.responds, "fail"), PassOr(h.health_responds, "warn")>>

\* main, --quick and --network: the functions called, in order
verify_main ==
  <<"check_prerequisites", "check_user_group", "check_directories",
    "check_application_files", "check_systemd_service",
    "check_pm2_processes", "check_network", "check_nginx", "check_security",
    "check_logs", "check_performance", "generate_summary">>
verify_quick == <<"check_systemd_service", "check_network", "generate_summary">>
verify_network == <<"check_network", "generate_summary">>
verify_flow(a) ==
  IF a = "--quick" THEN verify_quick
  ELSE IF a = "--network" THEN verify_network
  ELSE IF a \in {"--logs", "--help"} THEN << >>
  ELSE verify_main

verify_after(a, g) ==
  LET flow == verify_flow(a)
      i == CHOOSE k \in DOMAIN flow : flow[k] = g
  IN  IF i = Len(flow) THEN "end" ELSE flow[i + 1]

\* generate_summary: the total is computed, then the verdict is reported with
\* success or error, then the counters and the total are printed; returns 1
\* iff CHECKS_FAILED > 0
generate_summary(st) ==
  LET total_checks == st.CHECKS_PASSED + st.CHECKS_FAILED + st.CHECKS_WARNED
      counted == count(st, IF st.CHECKS_FAILED = 0 THEN "pass" ELSE "fail")
  IN  IF counted.pc = "exited" THEN counted
      ELSE [counted EXCEPT
              !.summary = [printed |-> TRUE,
                           passed |-> counted.CHECKS_PASSED,
                           failed |-> counted.CHECKS_FAILED,
                           warned |-> counted.CHECKS_WARNED,
                           total |-> total_checks],
              !.pc = "exited",
              !.exitCode = IF counted.CHECKS_FAILED > 0 THEN 1 ELSE 0]

VerifyInit ==
  /\ DeployIdle
  /\ ProbeIdle
  /\ HealthIdle
  /\ InstallIdle
  /\ SetupIdle
  /\ InputIdle
  /\ EffectIdle
  /\ \E a \in {"", "--quick", "--network", "--logs", "--help"}, h \in Hosts :
       verify = VerifyStart(a, h)

\* case "${1:-}" in ... esac: --logs and --help run no check
verify_case ==
  /\ verify.pc = "case"
  /\ IF verify.arg = "--help"
     THEN verify' = [verify EXCEPT !.pc = "exited", !.exitCode = 0]
     ELSE IF verify.arg = "--logs"
     THEN \E journalctl \in {0, 1} :
            verify' = [verify EXCEPT !.pc = "exited", !.exitCode = journalctl]
     ELSE verify' = [verify EXCEPT !.pc = verify_flow(verify.arg)[1]]
  /\ UNCHANGED besideVerify

\* the function at pc is called: a check group reports its results, the
\* later groups any results; generate_summary ends the flow
verify_function ==
  /\ verify.pc \notin {"idle", "case", "exited"}
  /\ LET g == verify.pc
         st == [verify EXCEPT !.groups = Append(@, g)]
         goes_on(reported) ==
           IF reported.pc = "exited" THEN reported
           ELSE IF g = "check_systemd_service" /\ ~verify.host.service_file
           THEN verify_errexit(reported, 1)
           ELSE [reported EXCEPT !.pc = verify_after(verify.arg, g)]
     IN  IF g = "generate_summary"
         THEN verify' = generate_summary(st)
         ELSE IF g = "check_prerequisites"
         THEN verify' = goes_on(report_results(
                          check_prerequisites_results(verify.host), st))
         ELSE IF g = "check_systemd_service"
         THEN verify' = goes_on(report_results(
                          check_systemd_service_results(verify.host), st))
         ELSE IF g = "check_network"
         THEN verify' = goes_on(report_results(
                          check_network_results(verify.host), st))
         ELSE \E results \in SeqsUpTo(Outcomes, MaxChecks) :
                verify' = goes_on(report_results(results, st))
  /\ UNCHANGED besideVerify

VerifyNext == verify_case \/ verify_function

VerifySpec == VerifyInit /\ [][VerifyNext]_vars

\* ------------------------------------------------- typing.js: TypingEffect
\* A text is its length, the element's textContent the index of a text and
\* the length of the prefix shown; timers counts the pending
\* setTimeout(() => this.type(), timeout) callbacks.

\* currentText.substring(0, n)
substring(len, n) == IF n < 0 THEN 0 ELSE IF n > len THEN len ELSE n

\* setTimeout(() => this.type(), timeout)
setTimeout(e) == [e EXCEPT !.timers = @ + 1]

\* type()
type(e) ==
  IF e.isPaused THEN e
  ELSE LET currentText == e.texts[e.textIndex + 1]
           charIndex == IF e.isDeleting THEN e.charIndex - 1
                        ELSE e.charIndex + 1
           typed == [e EXCEPT
                      !.textContent = [text |-> e.textIndex,
                                       shown |-> substring(currentText,
                                                           charIndex)],
                      !.charIndex = charIndex]
       IN  IF ~e.isDeleting /\ charIndex = currentText
           THEN setTimeout([typed EXCEPT !.isDeleting = TRUE])
           ELSE IF e.isDeleting /\ charIndex = 0
           THEN setTimeout([typed EXCEPT
                              !.isDeleting = FALSE,
                              !.textIndex = (e.textIndex + 1) % Len(e.texts)])
           ELSE setTimeout(typed)

\* new TypingEffect(element, {texts: ...}): the fields, then this.type()
TypingEffect(texts) ==
  type([ pc |-> "running", texts |-> texts, textIndex |-> 0, charIndex |-> 0,
         isDeleting |-> FALSE, isPaused |-> FALSE,
         textContent |-> [text |-> 0, shown |-> 0],
         timers |-> 0, hidden |-> FALSE ])

EffectInit ==
  /\ DeployIdle
  /\ ProbeIdle
  /\ HealthIdle
  /\ InstallIdle
  /\ SetupIdle
  /\ InputIdle
  /\ VerifyIdle
  /\ \E n \in 1..2 : \E texts \in [1..n -> 1..MaxTextLen] :
       effect = TypingEffect(texts)

\* a pending timer fires: its callback calls type()
timer_fires ==
  /\ effect.pc = "running"
  /\ effect.timers > 0
  /\ effect' = type([effect EXCEPT !.timers = @ - 1])
  /\ UNCHANGED besideEffect

\* pause(), called on window.typingEffect
pause ==
  /\ effect.pc = "running"
  /\ effect' = [effect EXCEPT !.isPaused = TRUE]
  /\ UNCHANGED besideEffect

\* resume(), called on window.typingEffect
resume ==
  /\ effect.pc = "running"
  /\ effect.timers < MaxTimers
  /\ effect' = type([effect EXCEPT !.isPaused = FALSE])
  /\ UNCHANGED besideEffect

\* the visibilitychange handler: pause() when the page became hidden,
\* resume() when it became visible
visibilitychange ==
  /\ effect.pc = "running"
  /\ IF ~effect.hidden
     THEN effect' = [effect EXCEPT !.hidden = TRUE, !.isPaused = TRUE]
     ELSE /\ effect.timers < MaxTimers
          /\ effect' = type([effect EXCEPT !.hidden = FALSE,
                                           !.isPaused = FALSE])
  /\ UNCHANGED besideEffect

EffectNext == timer_fires \/ pause \/ resume \/ visibilitychange

EffectSpec == EffectInit /\ [][EffectNext]_vars

\* the page alone drives the effect: timers and visibility changes
PageNext == timer_fires \/ visibilitychange

PageSpec == EffectInit /\ [][PageNext]_vars

\* ================================================================ claims
Executed == Range(obs.steps)
Deploy == arg = ""
Finished == pc = "exited"

\* C1: in a deploy invocation, when a pipeline step fails no later step is
\* executed and rollback() is invoked; its restore runs when a backup exists.
C1_FailureStopsAndRollsBack ==
  Deploy =>
    /\ \A i \in 1..(Len(obs.steps) - 1) : obs.steps[i] \notin obs.failed
    /\ (Finished /\ obs.failed # {}) =>
          /\ obs.rollbackCalls >= 1
          /\ (ROLLBACK_ENABLED /\ lastBackup \in DOMAIN backups)
                => obs.restoredFrom # 0

\* C2: when the post-deployment health check (10 attempts) ends unhealthy,
\* the invocation does not end before dist has been restored from the backup
\* and health_check has run again.
C2_UnhealthyIsRolledBack ==
  (Deploy /\ Finished /\ obs.postHealth = "unhealthy") =>
    /\ obs.restoredFrom # 0
    /\ obs.rbHealthRuns >= 1

\* C3: when dist/index.html does not exist after the build command, the
\* invocation ends in build_application with a non-zero status and
\* deploy_with_pm2 is not executed.
C3_NoIndexNoReload ==
  obs.noIndex =>
    /\ Finished
    /\ exitCode # 0
    /\ obs.steps[Len(obs.steps)] = "build_application"
    /\ "deploy_with_pm2" \notin Executed

C3_Witness == obs.noIndex /\ Finished /\ "build_application" \in Executed

\* C4: a deploy invocation that exits with 0 has executed every step exactly
\* once, in the documented order.
DocumentedOrder ==
  << "check_user", "check_prerequisites", "pre_deploy_hook", "create_backup",
     "install_dependencies", "build_application", "deploy_with_pm2",
     "reload_nginx", "post_deployment_checks", "post_deploy_hook",
     "cleanup_backups" >>

C4_SuccessRanAllStepsInOrder ==
  (Deploy /\ Finished /\ exitCode = 0) => obs.steps = DocumentedOrder

C4_Witness == Deploy /\ Finished /\ exitCode = 0 /\ Len(obs.steps) = 11

\* C5: a deploy invocation exits with 0 only if every pipeline step
\* succeeded; a failed step makes the exit status non-zero.
C5_ZeroOnlyWithoutFailure ==
  (Deploy /\ Finished /\ obs.failed # {}) => exitCode # 0

\* C6: install, build, PM2 reload/start and nginx reload happen only after
\* this invocation has made a backup holding the dist it started from; when
\* making the backup fails, none of them happens.
Mutating ==
  {"install_dependencies", "build_application", "deploy_with_pm2",
   "reload_nginx"}

C6_BackupBeforeMutation ==
  Deploy =>
    /\ (Executed \cap Mutating # {}) =>
          /\ BACKUP_DIR \in DOMAIN backups \ obs.preBackups
          /\ backups[BACKUP_DIR].dist = obs.preDist
    /\ obs.backupFailed => Executed \cap Mutating = {}

\* C7: a successful deployment leaves exactly one backup that did not exist
\* before, holding the dist that was live before it; k successive successful
\* deployments from an empty backup directory leave k backups, the newest
\* holding the dist before the last one, the oldest the dist before the first.
Newest(bks) == CHOOSE a \in DOMAIN bks : \A b \in DOMAIN bks : a >= b
Oldest(bks) == CHOOSE a \in DOMAIN bks : \A b \in DOMAIN bks : a <= b

C7_OneNewBackupOfPriorDist ==
  (Deploy /\ Finished /\ exitCode = 0) =>
    /\ DOMAIN backups \ obs.preBackups = {BACKUP_DIR}
    /\ backups[BACKUP_DIR].dist = obs.preDist
    /\ (run.emptyStart /\ run.allDeployed /\ invocations <= KEEP) =>
          /\ Cardinality(DOMAIN backups) = invocations
          /\ backups[Newest(backups)].dist = obs.preDist
          /\ backups[Oldest(backups)].dist = run.firstDist

\* C8: after cleanup_backups the backup directory holds at most 5 entries,
\* and they are the most recent ones: every entry kept is newer than every
\* entry removed, and nothing is removed while fewer than 5 would remain.
C8_CleanupKeepsNewestFive ==
  "cleanup_backups" \in Executed =>
    /\ Cardinality(DOMAIN backups) <= 5
    /\ DOMAIN obs.deleted \cap DOMAIN backups = {}
    /\ \A k \in DOMAIN backups, d \in DOMAIN obs.deleted :
          backups[k].mtime > obs.deleted[d].mtime
    /\ obs.deleted # << >> => Cardinality(DOMAIN backups) = 5

C8_Witness ==
  /\ "cleanup_backups" \in Executed
  /\ Cardinality(DOMAIN obs.deleted) >= 2

\* C9: rollback runs at most once per invocation: when an action inside it
\* fails (restore copy, PM2 start, nginx reload, health check) the invocation
\* has ended with a non-zero status and nothing else is started.
C9_RollbackAtMostOnce ==
  /\ obs.rollbackCalls <= 1
  /\ obs.rbFailed => (Finished /\ exitCode # 0)

C9_Witness == obs.rbFailed /\ Finished /\ obs.rollbackCalls = 1

\* C10: a rollback inside a deploy invocation that restores files restores
\* the backup made by create_backup of that invocation.  Stated here for the
\* record: no rollback inside a deploy invocation reaches its restore (see
\* RollbackInDeployNeverRestores), so the statement has no case to be
\* checked on.
C10_RestoresOwnBackup ==
  (Deploy /\ obs.restoredFrom # 0) =>
    /\ obs.restoredFrom = BACKUP_DIR
    /\ BACKUP_DIR \notin obs.preBackups

\* In a deploy invocation rollback never copies a backup back: the basic
\* rollback ends at its first error call, the enhanced handler at its own.
RollbackInDeployNeverRestores ==
  Deploy => (obs.restoredFrom = 0 /\ obs.rbHealthRuns = 0)

\* C11: in every invocation each nginx reload directly follows a successful
\* nginx -t of the same invocation; after a failed test no reload is issued.
C11_ReloadOnlyAfterTest ==
  \A i \in DOMAIN obs.nginx :
    /\ obs.nginx[i] = "reload" => (i > 1 /\ obs.nginx[i - 1] = "test_ok")
    /\ obs.nginx[i] = "test_failed" => i = Len(obs.nginx)

C11_Witness ==
  /\ arg = "--rollback"
  /\ obs.restoredFrom # 0
  /\ "reload" \in Range(obs.nginx)

\* C12: at every moment of an invocation of the deploy script, its rollback
\* included, at most one worker of the main service is out of service.
C12_AtMostOneWorkerAbsent == obs.maxAbsent <= 1

\* the same for the pipeline alone: pm2 reload replaces the workers in turn
C12_PipelineKeepsService == Deploy => obs.maxAbsent <= 1

\* C13: health_check(url, n) always terminates.
C13_Terminates == <>(probe.pc = "done")

\* The loop itself is bounded: at most n probes, healthy at the first probe
\* that succeeds, unhealthy only after exactly n failed probes, and one
\* 2-second sleep after every failed probe.
C13_LoopBounded ==
  /\ probe.probes <= probe.max_attempts
  /\ probe.failures <= probe.probes
  /\ probe.result = "healthy" => probe.probes = probe.failures + 1
  /\ probe.result = "unhealthy" =>
        (probe.failures = probe.max_attempts /\ probe.probes = probe.failures)
  /\ Len(probe.sleeps) \in {probe.failures, probe.failures - 1}
  /\ \A i \in DOMAIN probe.sleeps : probe.sleeps[i] = 2
  /\ probe.pc = "done" => Len(probe.sleeps) = probe.failures

\* C14: GET /health answers 200 exactly when every sub-check of the report
\* it returns is healthy and 503 otherwise; the report holds the three
\* sub-checks and its overall status is healthy iff all three are healthy.
C14_HealthCodeIsConjunction ==
  response.path = "/health" =>
    LET report == response.body
        every == \A n \in CheckNames : report.checks[n].status = "healthy"
    IN  /\ DOMAIN report.checks = CheckNames
        /\ \A n \in CheckNames : report.by[n] = response.run
        /\ report.status = (IF every THEN "healthy" ELSE "unhealthy")
        /\ response.code = (IF every THEN 200 ELSE 503)

C14_Witness ==
  /\ response.path = "/health"
  /\ response.code = 503
  /\ response.body.checks["main_app"].status = "healthy"
  /\ response.body.checks["filesystem"].status = "unhealthy"
  /\ response.body.checks["system_resources"].status = "healthy"

\* C15: GET /health/live is answered with 200 in every state of the service.
C15_LiveIsAlways200 ==
  response.path = "/health/live" => response.code = 200

C15_Witness ==
  /\ response.path = "/health/live"
  /\ healthStatus.status = "unhealthy"
  /\ "timer" \in DOMAIN inflight

\* C16: in the /metrics output portfolio_health_status is 1 iff the overall
\* status of the run that produced it is healthy, each per-check gauge is 1
\* iff that sub-check is healthy, and the response status is 200 either way.
C16_GaugesFollowReport ==
  response.path = "/metrics" =>
    LET out == response.body
        report == response.health
    IN  /\ response.code = 200
        /\ \A n \in CheckNames : report.by[n] = response.run
        /\ (out.portfolio_health_status = 1) = (report.status = "healthy")
        /\ out.portfolio_health_status \in {0, 1}
        /\ DOMAIN out.portfolio_check_status = CheckNames
        /\ \A n \in CheckNames :
             /\ out.portfolio_check_status[n] \in {0, 1}
             /\ (out.portfolio_check_status[n] = 1)
                  = (report.checks[n].status = "healthy")

C16_Witness ==
  /\ response.path = "/metrics"
  /\ response.body.portfolio_health_status = 0
  /\ response.body.portfolio_check_status["main_app"] = 1
  /\ response.body.portfolio_check_status["system_resources"] = 0

\* C17: GET /health/ready answers 200 iff the main application answered the
\* probe with a status in 200..399 before the timeout, 503 otherwise,
\* whatever the filesystem and system-resource sub-checks say.
C17_ReadyFollowsMainApp ==
  response.path = "/health/ready" =>
    LET seen == response.body.mainApp.statusCode
    IN  response.code = (IF seen >= 200 /\ seen <= 399 THEN 200 ELSE 503)

C17_Witness ==
  /\ response.path = "/health/ready"
  /\ response.code = 200
  /\ healthStatus.status = "unhealthy"
  /\ healthStatus.checks["main_app"].status = "healthy"

\* C18: under every interleaving of the timer's runs and the requests' runs
\* the stored healthStatus is the complete result of one run, and once a run
\* has completed its status is never 'unknown' again.
C18_StoredReportIsOneRun ==
  /\ everCompleted => healthStatus.status # "unknown"
  /\ healthStatus.status = "unknown" => healthStatus = InitialHealthStatus
  /\ healthStatus.status # "unknown" =>
        /\ DOMAIN healthStatus.checks = CheckNames
        /\ \E id \in 1..runsStarted :
             \A n \in CheckNames : healthStatus.by[n] = id
        /\ healthStatus.status =
             (IF \A n \in CheckNames :
                   healthStatus.checks[n].status = "healthy"
              THEN "healthy" ELSE "unhealthy")

\* two runs interleave: the run started second has stored its report while
\* the run started first is still collecting its sub-checks
C18_Witness ==
  /\ everCompleted
  /\ DOMAIN inflight = {"timer", "request"}
  /\ \E o \in DOMAIN inflight : inflight[o].results # << >>
  /\ healthStatus.status # "unknown"
  /\ \E o \in DOMAIN inflight :
       /\ inflight[o].id # 0
       /\ healthStatus.by["main_app"] > inflight[o].id

\* C19: when install.sh is run with --dry-run no step changes the system:
\* nothing is installed, cloned, copied, started or configured.
C19_DryRunChangesNothing == inst.DRY_RUN => inst.changes = {}

\* up to install_nginx a dry run has changed nothing
C19_DryRunCleanBeforeSslTools ==
  (inst.DRY_RUN /\ inst.pc \in {"parse_arguments", "validate_inputs",
                                "check_root", "install_prerequisites",
                                "install_nodejs", "install_pm2",
                                "install_nginx", "install_ssl_tools"})
     => inst.changes = {}

\* C20: setup-service.sh invoked with --repair executes repair_installation,
\* and invoked with --dry-run executes the setup flow in preview mode.
C20_OptionsRunTheirFlow ==
  (setup.pc = "exited" /\ setup.exitCode = 0
     /\ setup.args # << >>
     /\ Range(setup.args) \subseteq {"--repair", "--dry-run"}) =>
    /\ "--repair" \in Range(setup.args) =>
          "repair_installation" \in Range(setup.called)
    /\ "--repair" \notin Range(setup.args) =>
          (setup.DRY_RUN /\ "main" \in Range(setup.called))

\* main is called only when the script is given no argument, and then with
\* REPAIR_MODE and DRY_RUN both false
C20_MainOnlyWithoutArguments ==
  "main" \in Range(setup.called) =>
    (setup.args = << >> /\ ~setup.REPAIR_MODE /\ ~setup.DRY_RUN)

\* C21: deploy.sh invoked with --backup creates a backup and runs none of
\* install-dependencies, build, PM2 reload and nginx reload.
C21_BackupOptionOnlyBacksUp ==
  arg = "--backup" =>
    /\ Executed \cap Mutating = {}
    /\ (Finished /\ exitCode = 0) => "create_backup" \in Executed

\* C26: cleanup_backups run again right after cleanup_backups, no backup
\* having been created in between, deletes nothing: the backup set stays as
\* the first run left it.
\* ---- the spelling of a domain name
Labels(d) == Split(d, ".")
ValidLabel(l) ==
  /\ l # << >>
  /\ \A i \in DOMAIN l : l[i] \in Alnum \cup {"-"}
  /\ l[1] # "-" /\ l[Len(l)] # "-"
WellFormed(d) ==
  Len(Labels(d)) >= 2 /\ \A i \in DOMAIN Labels(d) : ValidLabel(Labels(d)[i])
NonOptions(args) ==
  SelectSeq(args, LAMBDA a :
              a \notin {OptSkipDomainCheck, OptDryRun, OptForce})
NoHelp(args) == \A i \in DOMAIN args : args[i] \notin {OptHelp, OptH}
Nth(ws, n) == IF Len(ws) >= n THEN ws[n] ELSE Empty
InFile(file, p) == \E n \in DOMAIN file : Contains(file[n], p)

\* C22: validate_inputs reports 'Invalid domain format' for no domain made
\* of two or more valid labels.
C22_SubdomainsAccepted ==
  WellFormed(inp.DOMAIN_) => inp.message # "Invalid domain format"

\* the enhanced copy accepts them
C22_EnhancedAccepts ==
  (inp.script = InstallEnhanced /\ WellFormed(inp.DOMAIN_))
    => inp.message # "Invalid domain format"

\* C23: after configure_nginx, for a DOMAIN of three or more labels, the
\* site file contains DOMAIN and contains www.DOMAIN nowhere.
C23_NoWwwForSubdomain ==
  (inp.conf # << >> /\ Len(Labels(inp.DOMAIN_)) >= 3)
    => /\ InFile(inp.conf, inp.DOMAIN_)
       /\ ~InFile(inp.conf, Www \o inp.DOMAIN_)

\* C24: certbot is given www.DOMAIN besides DOMAIN iff DOMAIN has exactly
\* two labels and does not start with "www."; otherwise DOMAIN alone.
C24_WwwCertIffSecondLevel ==
  inp.cert # << >> =>
    inp.cert = IF Len(Labels(inp.DOMAIN_)) = 2 /\ ~StartsWith(inp.DOMAIN_, Www)
               THEN <<inp.DOMAIN_, Www \o inp.DOMAIN_>>
               ELSE <<inp.DOMAIN_>>

\* the enhanced copy asks for exactly these names
C24_EnhancedCert ==
  (inp.script = InstallEnhanced /\ inp.cert # << >>) =>
    inp.cert = IF Len(Labels(inp.DOMAIN_)) = 2 /\ ~StartsWith(inp.DOMAIN_, Www)
               THEN <<inp.DOMAIN_, Www \o inp.DOMAIN_>>
               ELSE <<inp.DOMAIN_>>

\* C25: wherever the option flags stand, the first non-option argument
\* becomes DOMAIN and the second EMAIL; 'Unknown argument' is reported for
\* a third non-option argument only.
C25_PositionalsWhereverFlagsAre ==
  (inp.pc \notin {"idle", "parse_arguments"} /\ NoHelp(inp.args)) =>
    /\ inp.DOMAIN_ = Nth(NonOptions(inp.args), 1)
    /\ inp.EMAIL = Nth(NonOptions(inp.args), 2)
    /\ inp.message = "Unknown argument" <=> Len(NonOptions(inp.args)) >= 3

\* the enhanced copy does so
C25_EnhancedPositionals ==
  (inp.script = InstallEnhanced
     /\ inp.pc \notin {"idle", "parse_arguments"} /\ NoHelp(inp.args)) =>
    /\ inp.DOMAIN_ = Nth(NonOptions(inp.args), 1)
    /\ inp.EMAIL = Nth(NonOptions(inp.args), 2)
    /\ inp.message = "Unknown argument" <=> Len(NonOptions(inp.args)) >= 3

\* C30: in every interleaving of pause(), resume() and timer firings at most
\* one type() timer is pending, no type() step changes the text while the
\* effect is paused, and 0 <= charIndex <= length of the current text.
C30_OneTimerTextKeptIndexInRange ==
  effect.pc = "running" =>
    /\ effect.timers <= 1
    /\ effect.charIndex >= 0
    /\ effect.charIndex <= effect.texts[effect.textIndex + 1]

\* the index stays in range however many timers are pending
C30_CharIndexInRange ==
  effect.pc = "running" =>
    /\ effect.charIndex >= 0
    /\ effect.charIndex <= effect.texts[effect.textIndex + 1]

\* while the effect is and stays paused the text is not changed
C30_PausedTextKept ==
  [][(effect.pc = "running" /\ effect.isPaused /\ effect'.isPaused)
       => effect'.textContent = effect.textContent]_vars

\* hiding the page and showing it again are enough for a second timer
C30_OneTimerByPageAlone == effect.pc = "running" => effect.timers <= 1

\* ---- the results the check groups logged
RECURSIVE CountOf(_, _)
CountOf(results, o) ==
  IF results = << >> THEN 0
  ELSE (IF Head(results) = o THEN 1 ELSE 0) + CountOf(Tail(results), o)
Checking == verify.pc # "idle" /\ verify.arg \in {"", "--quick", "--network"}

\* C29: every check group runs to the summary; each printed counter is the
\* number of checks with that outcome, 'Total checks' is the sum of the
\* three printed counts, and the script fails iff a check failed.
C29_SummaryCountsChecks ==
  (Checking /\ verify.pc = "exited") =>
    /\ verify.groups = verify_flow(verify.arg)
    /\ verify.summary.printed
    /\ verify.summary.passed = CountOf(verify.results, "pass")
    /\ verify.summary.failed = CountOf(verify.results, "fail")
    /\ verify.summary.warned = CountOf(verify.results, "warn")
    /\ verify.summary.total = verify.summary.passed + verify.summary.failed
                                + verify.summary.warned
    /\ verify.exitCode # 0 <=> CountOf(verify.results, "fail") >= 1

\* no invocation that runs checks gets past the first result it counts
C29_EndsAtFirstResult ==
  (Checking /\ verify.pc = "exited") =>
    /\ Len(verify.results) = 1
    /\ Len(verify.groups) = 1
    /\ ~verify.summary.printed
    /\ verify.exitCode = 1

C26_CleanupIdempotent ==
  "cleanup_backups" \in Executed =>
    /\ cleanup_victims(backups) = {}
    /\ rm_rf(backups, cleanup_victims(backups)) = backups

C26_Witness ==
  /\ "cleanup_backups" \in Executed
  /\ Cardinality(DOMAIN obs.deleted) = 1
  /\ Cardinality(DOMAIN backups) = KEEP

\* C27: in every invocation the directory of the log file exists before the
\* first log line is appended: appending a log line never fails.
C27_LogDirBeforeFirstLine == ~obs.logFailed

\* C28: cleanup_backups never deletes the directory named in
\* /tmp/portfolio_last_backup.
C28_CleanupKeepsPointerTarget ==
  lastBackup # 0 => lastBackup \notin DOMAIN obs.deleted

\* as long as fewer than KEEP directories are newer than the pointer's
\* target, cleanup_backups keeps it
C28_KeptWhileAmongNewest ==
  (lastBackup # 0
     /\ Cardinality({b \in obs.preBackups : b > lastBackup}) < KEEP - 1)
    => lastBackup \notin DOMAIN obs.deleted
====
